---- MODULE Spec2Model ----
(***************************************************************************)
(* AidWatch: event intake, correlation and notification dispatch.          *)
(*                                                                         *)
(* The model follows the API package: the immediate notification sweep    *)
(* (processImmediateNotifications), the classification batch               *)
(* (processUnanalyzedEvents) with its entry points in the job scheduler    *)
(* and in the AI routes, and the webhook receipt route with               *)
(* processWebhookEvent.  Every await of the code is a step of the model,   *)
(* so that concurrent runs interleave where the code's runs can.  Text is  *)
(* a sequence of one-character strings; time is in minutes.                *)
(***************************************************************************)
EXTENDS Integers, Sequences, FiniteSets, TLC

VARIABLES
    now,               \* the wall clock, in minutes
    crises,            \* table Crisis: a sequence of rows, id = index
    events,            \* table Event: a sequence of rows, id = index
    sentNotification,  \* table SentNotification (the ledger), id = index
    sweep,             \* the runs of processImmediateNotifications, per cron job
    mailLog,           \* the transport: the <<subscription, crisis>> of every sendCrisisAlert call
    batch,             \* the runs of processUnanalyzedEvents, per entry point
    isAnalysisRunning, \* the scheduler's run-lock flag of the analysis job
    classified,        \* the classifier: the events analyzeContent was called for by a batch
    linkedSeverity,    \* per crisis, the highest severity among its initial value and
                       \* the classifier severities of the events linked to it
    requests,          \* the requests to POST /receive/:endpoint, each with its position
    webhooks,          \* table Webhook: a sequence of rows, id = index
    webhookEvents,     \* table WebhookEvent: a sequence of rows, id = index
    tasks,             \* the calls of processWebhookEvent, one per WebhookEvent
    errorLog,          \* the calls whose rejection the .catch of the route logged
    isIngestionRunning,          \* the scheduler's run-lock flag of the ingestion job
    isSummaryGenerationRunning,  \* the scheduler's run-lock flag of the summary job
    runs,              \* per job, the runs of ingestion and of summary generation in progress
    refusals,          \* the ticks and the trigger calls that found the flag of their job set
    digest,            \* the runs of processDailyDigest and processWeeklyDigest, per cadence
    digestLog,         \* the transport: per cadence, the mails the latest sweep handed
                       \* to sendDailyDigest
    ingestion,         \* the run of runDataIngestion: its phase and the runs so far
    fetch,             \* the fetchers of the first phase, per fetcher
    pulled             \* the ids of the Events the fetchers created

sweepVars == <<sentNotification, sweep, mailLog>>

batchVars == <<events, batch, isAnalysisRunning, classified, linkedSeverity>>

recvVars == <<requests, webhooks, webhookEvents, tasks, errorLog>>

jobVars == <<isIngestionRunning, isSummaryGenerationRunning, runs, refusals>>

digestVars == <<digest, digestLog>>

pullVars == <<ingestion, fetch, pulled>>

vars == <<now, crises, events, sentNotification, sweep, mailLog, batch,
          isAnalysisRunning, classified, linkedSeverity,
          requests, webhooks, webhookEvents, tasks, errorLog,
          isIngestionRunning, isSummaryGenerationRunning, runs, refusals,
          digest, digestLog, ingestion, fetch, pulled>>

----------------------------------------------------------------------------
(* Bounds of the model *)

\* how many times the clock advances
MaxTicks == 2

----------------------------------------------------------------------------
(* Program constants *)

\* the clock advances in steps of one cron period, '*/30 * * * *'
TickMinutes == 30

\* 60 * 60 * 1000 ms, the trailing window of the immediate sweep
HourMinutes == 60

\* thirtyDaysAgo.setDate(getDate() - 30): 30 days, in minutes
ThirtyDaysMinutes == 43200

\* processUnanalyzedEvents(10) of the scheduled analysis
CronBatchSize == 10

----------------------------------------------------------------------------
(* Text *)

LowerChar(ch) ==
    CASE ch = "A" -> "a"
      [] ch = "B" -> "b"
      [] ch = "S" -> "s"
      [] ch = "U" -> "u"
      [] ch = "L" -> "l"
      [] ch = "F" -> "f"
      [] ch = "K" -> "k"
      [] ch = "Q" -> "q"
      [] OTHER -> ch

\* String.prototype.toLowerCase
ToLowerCase(s) == [i \in DOMAIN s |-> LowerChar(s[i])]

\* String.prototype.includes: needle occurs in hay as a substring
Includes(hay, needle) ==
    \E i \in 0..(Len(hay) - Len(needle)) :
        SubSeq(hay, i + 1, i + Len(needle)) = needle

\* the elements of a finite set of integers, in increasing order
RECURSIVE Ascending(_)
Ascending(S) ==
    IF S = {} THEN <<>>
    ELSE LET m == CHOOSE x \in S : \A y \in S : x <= y
         IN  <<m>> \o Ascending(S \ {m})

\* [].concat of a sequence of sequences
RECURSIVE Flatten(_)
Flatten(ss) == IF ss = <<>> THEN <<>> ELSE Head(ss) \o Flatten(Tail(ss))

----------------------------------------------------------------------------
(* Severity *)

Severities == {"UNKNOWN", "LOW", "MEDIUM", "HIGH", "CRITICAL"}

severityOrder ==
    [s \in Severities |->
        CASE s = "UNKNOWN" -> 0
          [] s = "LOW" -> 1
          [] s = "MEDIUM" -> 2
          [] s = "HIGH" -> 3
          [] s = "CRITICAL" -> 4]

severityToNumber(severity) ==
    IF severity \in Severities THEN severityOrder[severity] ELSE 0

----------------------------------------------------------------------------
(* Seed data: the rows the store holds when the process starts *)

NoText == <<>>

\* table AlertSubscription; the core only reads it
AlertSubscriptions ==
    << [email |-> "a", regions |-> {}, crisisTypes |-> {},
        minSeverity |-> "LOW", frequency |-> "IMMEDIATE",
        emailVerified |-> TRUE, isActive |-> TRUE],
       [email |-> "b", regions |-> {<<"s", "u">>}, crisisTypes |-> {"CONFLICT"},
        minSeverity |-> "MEDIUM", frequency |-> "IMMEDIATE",
        emailVerified |-> TRUE, isActive |-> TRUE],
       [email |-> "c", regions |-> {}, crisisTypes |-> {},
        minSeverity |-> "LOW", frequency |-> "DAILY",
        emailVerified |-> TRUE, isActive |-> TRUE],
       [email |-> "d", regions |-> {}, crisisTypes |-> {},
        minSeverity |-> "LOW", frequency |-> "IMMEDIATE",
        emailVerified |-> FALSE, isActive |-> TRUE],
       [email |-> "e", regions |-> {}, crisisTypes |-> {"CONFLICT"},
        minSeverity |-> "HIGH", frequency |-> "IMMEDIATE",
        emailVerified |-> TRUE, isActive |-> TRUE],
       [email |-> "f", regions |-> {}, crisisTypes |-> {},
        minSeverity |-> "LOW", frequency |-> "IMMEDIATE",
        emailVerified |-> TRUE, isActive |-> FALSE],
       [email |-> "g", regions |-> {}, crisisTypes |-> {"NATURAL_DISASTER"},
        minSeverity |-> "LOW", frequency |-> "DAILY",
        emailVerified |-> TRUE, isActive |-> TRUE],
       [email |-> "h", regions |-> {}, crisisTypes |-> {},
        minSeverity |-> "LOW", frequency |-> "WEEKLY",
        emailVerified |-> TRUE, isActive |-> TRUE],
       [email |-> "i", regions |-> {<<"L", "a">>}, crisisTypes |-> {},
        minSeverity |-> "LOW", frequency |-> "WEEKLY",
        emailVerified |-> TRUE, isActive |-> TRUE],
       [email |-> "j", regions |-> {}, crisisTypes |-> {},
        minSeverity |-> "LOW", frequency |-> "DAILY",
        emailVerified |-> FALSE, isActive |-> TRUE] >>

SubscriptionIds == DOMAIN AlertSubscriptions

\* table Crisis at start: an ongoing conflict, a low-severity disaster, and
\* a critical conflict created two hours ago
SeedCrises ==
    << [type |-> "CONFLICT", severity |-> "MEDIUM", status |-> "ONGOING", confidence |-> 50,
        location |-> <<"A", "b">>, country |-> NoText, region |-> <<"S", "u">>,
        detectedAt |-> 0, createdAt |-> 0, origin |-> 0],
       [type |-> "NATURAL_DISASTER", severity |-> "LOW", status |-> "EMERGING", confidence |-> 50,
        location |-> <<"b">>, country |-> NoText, region |-> NoText,
        detectedAt |-> 0, createdAt |-> 0, origin |-> 0],
       [type |-> "CONFLICT", severity |-> "CRITICAL", status |-> "RESOLVED", confidence |-> 50,
        location |-> <<"S", "u">>, country |-> NoText, region |-> <<"S", "u">>,
        detectedAt |-> 0 - 120, createdAt |-> 0 - 120, origin |-> 0] >>

EmailStatuses == {"PENDING", "SENT", "FAILED", "BOUNCED"}

\* a ledger row
Notification(subscriptionId, crisisId, status) ==
    [subscriptionId |-> subscriptionId, crisisId |-> crisisId, status |-> status]

\* the ledger at start: empty, or one row of any status left by an earlier run
SeedLedgers ==
    {<<>>} \cup {<<Notification(1, 1, st)>> : st \in EmailStatuses}

----------------------------------------------------------------------------
(* Immediate sweep: processImmediateNotifications *)

\* the two cron jobs that run the sweep; neither holds a run-lock flag
Sweepers == {"earlyWarning", "immediateNotifications"}

IdleSweep == [pc |-> "idle", since |-> 0, recentCrises |-> <<>>, work |-> <<>>, idx |-> 0,
              notification |-> 0, delivered |-> TRUE]

\* prisma.crisis.findMany: created in the last hour, MEDIUM and above
RecentCrises(t) ==
    Ascending({c \in DOMAIN crises :
        /\ crises[c].createdAt >= t - HourMinutes
        /\ crises[c].severity \in {"MEDIUM", "HIGH", "CRITICAL"}})

\* prisma.alertSubscription.findMany: active, verified, of one frequency
SubscribersOf(frequency) ==
    Ascending({s \in SubscriptionIds :
        /\ AlertSubscriptions[s].isActive
        /\ AlertSubscriptions[s].emailVerified
        /\ AlertSubscriptions[s].frequency = frequency})

\* a filter that asks for a severity above the minimum
SubscriberMatchesAbove(sub, crisis) ==
    /\ sub.regions = {} \/ \E r \in sub.regions :
                               Includes(ToLowerCase(crisis.region), ToLowerCase(r))
    /\ sub.crisisTypes = {} \/ crisis.type \in sub.crisisTypes
    /\ severityToNumber(crisis.severity) > severityToNumber(sub.minSeverity)

\* the filter callback: region, type and minimum severity
SubscriberMatches(sub, crisis) ==
    LET crisisRegion == crisis.region
        regionMatch ==
            \/ sub.regions = {}
            \/ \E r \in sub.regions : Includes(ToLowerCase(crisisRegion), ToLowerCase(r))
        typeMatch ==
            \/ sub.crisisTypes = {}
            \/ crisis.type \in sub.crisisTypes
        severityMatch ==
            severityToNumber(crisis.severity) >= severityToNumber(sub.minSeverity)
    IN  regionMatch /\ typeMatch /\ severityMatch

\* the pairs the two nested loops visit, in order: for each recent crisis its
\* matching subscribers
SweepWork(recent, subscribers) ==
    Flatten([i \in DOMAIN recent |->
        LET matching == SelectSeq(subscribers,
                LAMBDA s : SubscriberMatches(AlertSubscriptions[s], crises[recent[i]]))
        IN  [j \in DOMAIN matching |-> <<matching[j], recent[i]>>]])

\* a lookup that counts only the rows already SENT
ExistingSentNotification(subscriptionId, crisisId) ==
    {n \in DOMAIN sentNotification :
        /\ sentNotification[n].subscriptionId = subscriptionId
        /\ sentNotification[n].crisisId = crisisId
        /\ sentNotification[n].status = "SENT"}

\* sentNotification.findFirst({subscriptionId, crisisId}): any status counts
ExistingNotification(subscriptionId, crisisId) ==
    {n \in DOMAIN sentNotification :
        /\ sentNotification[n].subscriptionId = subscriptionId
        /\ sentNotification[n].crisisId = crisisId}

\* the loops go on to the next pair, or the sweep returns
SweepAdvance(p) ==
    IF sweep[p].idx < Len(sweep[p].work)
    THEN [sweep[p] EXCEPT !.pc = "check", !.idx = @ + 1, !.notification = 0,
                          !.delivered = TRUE]
    ELSE [sweep[p] EXCEPT !.pc = "done", !.notification = 0, !.delivered = TRUE]

CurrentPair(p) == sweep[p].work[sweep[p].idx]

\* the cron callback fires; the sweep reads the recent crises and returns at
\* once when there are none
SweepStart(p) ==
    /\ sweep[p].pc \in {"idle", "done"}
    /\ LET recent == RecentCrises(now)
       IN  sweep' = [sweep EXCEPT ![p] =
               IF recent = <<>>
               THEN [IdleSweep EXCEPT !.pc = "done", !.since = now]
               ELSE [IdleSweep EXCEPT !.pc = "subscribers", !.since = now,
                                      !.recentCrises = recent]]
    /\ UNCHANGED <<now, crises, sentNotification, mailLog, batchVars, recvVars, jobVars, digestVars, pullVars>>

\* the sweep reads the IMMEDIATE subscribers and enters the loops
SweepLoadSubscribers(p) ==
    /\ sweep[p].pc = "subscribers"
    /\ LET work == SweepWork(sweep[p].recentCrises, SubscribersOf("IMMEDIATE"))
       IN  sweep' = [sweep EXCEPT ![p] =
               IF work = <<>>
               THEN [@ EXCEPT !.pc = "done"]
               ELSE [@ EXCEPT !.pc = "check", !.work = work, !.idx = 1]]
    /\ UNCHANGED <<now, crises, sentNotification, mailLog, batchVars, recvVars, jobVars, digestVars, pullVars>>

\* findFirst for the pair: a row of any status skips the pair
SweepCheckLedger(p) ==
    /\ sweep[p].pc = "check"
    /\ LET pair == CurrentPair(p)
       IN  sweep' = [sweep EXCEPT ![p] =
               IF ExistingNotification(pair[1], pair[2]) # {}
               THEN SweepAdvance(p)
               ELSE [@ EXCEPT !.pc = "create"]]
    /\ UNCHANGED <<now, crises, sentNotification, mailLog, batchVars, recvVars, jobVars, digestVars, pullVars>>

\* sentNotification.create with status PENDING
SweepCreate(p) ==
    /\ sweep[p].pc = "create"
    /\ LET pair == CurrentPair(p)
       IN  sentNotification' =
               Append(sentNotification, Notification(pair[1], pair[2], "PENDING"))
    /\ sweep' = [sweep EXCEPT ![p] =
           [@ EXCEPT !.pc = "send", !.notification = Len(sentNotification) + 1]]
    /\ UNCHANGED <<now, crises, mailLog, batchVars, recvVars, jobVars, digestVars, pullVars>>

\* emailService.sendCrisisAlert: one delivery attempt; it resolves to true or
\* false (sendEmail catches the transport's error) and the sweep ignores the value
SweepSend(p) ==
    /\ sweep[p].pc = "send"
    /\ \E delivered \in BOOLEAN :
        /\ mailLog' = Append(mailLog, CurrentPair(p))
        /\ sweep' = [sweep EXCEPT ![p] = [@ EXCEPT !.pc = "mark", !.delivered = delivered]]
    /\ UNCHANGED <<now, crises, sentNotification, batchVars, recvVars, jobVars, digestVars, pullVars>>

\* sentNotification.update to SENT; when that update rejects, the catch block runs
SweepMarkSent(p) ==
    /\ sweep[p].pc = "mark"
    /\ \/ /\ sentNotification' =
               [sentNotification EXCEPT ![sweep[p].notification].status = "SENT"]
          /\ sweep' = [sweep EXCEPT ![p] = SweepAdvance(p)]
       \/ /\ sweep' = [sweep EXCEPT ![p] = [@ EXCEPT !.pc = "catch"]]
          /\ UNCHANGED sentNotification
    /\ UNCHANGED <<now, crises, mailLog, batchVars, recvVars, jobVars, digestVars, pullVars>>

\* a catch block that logs the error and throws it again: the row stays as
\* it is and the sweep is over
SweepRethrows(p) ==
    /\ sweep[p].pc = "catch"
    /\ sweep' = [sweep EXCEPT ![p] =
           [@ EXCEPT !.pc = "done", !.notification = 0, !.delivered = TRUE]]
    /\ UNCHANGED <<now, crises, sentNotification, mailLog, batchVars, recvVars, jobVars, digestVars, pullVars>>

\* the catch block: sentNotification.update to FAILED
SweepMarkFailed(p) ==
    /\ sweep[p].pc = "catch"
    /\ sentNotification' =
           [sentNotification EXCEPT ![sweep[p].notification].status = "FAILED"]
    /\ sweep' = [sweep EXCEPT ![p] = SweepAdvance(p)]
    /\ UNCHANGED <<now, crises, mailLog, batchVars, recvVars, jobVars, digestVars, pullVars>>

\* a cron tick of a sweep that fires when no other sweep is in progress
SweepStartAlone(p) ==
    /\ \A q \in Sweepers : sweep[q].pc \in {"idle", "done"}
    /\ SweepStart(p)

----------------------------------------------------------------------------
(* Digest sweeps: processDailyDigest and processWeeklyDigest *)

Cadences == {"DAILY", "WEEKLY"}

DayMinutes == 1440

WeekMinutes == 10080

MaxDigests == 2

\* a weekly sweep that looks back one day only
DigestWindowOfDay(cadence) == DayMinutes

\* Date.now() - 24 * 60 * 60 * 1000, Date.now() - 7 * 24 * 60 * 60 * 1000
DigestWindow(cadence) == IF cadence = "DAILY" THEN DayMinutes ELSE WeekMinutes

IdleDigest ==
    [pc |-> "idle", sweeps |-> 0, since |-> 0, recentCrises |-> {}, subscribers |-> <<>>,
     idx |-> 0, listedBefore |-> {}]

DigestsIdle ==
    /\ digest = [cadence \in Cadences |-> IdleDigest]
    /\ digestLog = [cadence \in Cadences |-> <<>>]

\* recentCrises.filter(...) for the subscriber
MatchingCrisesOf(s, recent) ==
    {c \in recent : SubscriberMatches(AlertSubscriptions[s], crises[c])}

\* what the mails of a sweep have listed: the subscriber with each crisis
Listed(mails) ==
    UNION {{<<mails[i].subscription, c>> : c \in mails[i].crises} : i \in DOMAIN mails}

\* the loop takes the next subscriber, or the sweep is over
DigestAdvance(cadence) ==
    IF digest[cadence].idx < Len(digest[cadence].subscribers)
    THEN [digest[cadence] EXCEPT !.idx = @ + 1]
    ELSE [digest[cadence] EXCEPT !.pc = "done"]

\* the cron callback fires: crisis.findMany({createdAt: {gte}}); with no
\* crisis the sweep returns
DigestStart(cadence) ==
    /\ digest[cadence].pc \in {"idle", "done"}
    /\ digest[cadence].sweeps < MaxDigests
    /\ LET recent == {c \in DOMAIN crises :
                         crises[c].createdAt >= now - DigestWindow(cadence)}
       IN  digest' = [digest EXCEPT ![cadence] =
               [IdleDigest EXCEPT !.pc = IF recent = {} THEN "done" ELSE "subscribers",
                                  !.sweeps = digest[cadence].sweeps + 1,
                                  !.since = now, !.recentCrises = recent,
                                  !.listedBefore = digest[cadence].listedBefore \cup
                                                   Listed(digestLog[cadence])]]
    /\ digestLog' = [digestLog EXCEPT ![cadence] = <<>>]
    /\ UNCHANGED <<now, crises, sweepVars, batchVars, recvVars, jobVars, pullVars>>

\* alertSubscription.findMany({isActive, emailVerified, frequency})
DigestLoadSubscribers(cadence) ==
    /\ digest[cadence].pc = "subscribers"
    /\ LET subscribers == SubscribersOf(cadence)
       IN  digest' = [digest EXCEPT ![cadence] =
               IF subscribers = <<>> THEN [@ EXCEPT !.pc = "done"]
               ELSE [@ EXCEPT !.pc = "loop", !.subscribers = subscribers, !.idx = 1]]
    /\ UNCHANGED <<now, crises, sweepVars, batchVars, recvVars, jobVars, digestLog, pullVars>>

\* if (matchingCrises.length === 0) continue
DigestSkip(cadence) ==
    /\ digest[cadence].pc = "loop"
    /\ MatchingCrisesOf(digest[cadence].subscribers[digest[cadence].idx],
                        digest[cadence].recentCrises) = {}
    /\ digest' = [digest EXCEPT ![cadence] = DigestAdvance(cadence)]
    /\ UNCHANGED <<now, crises, sweepVars, batchVars, recvVars, jobVars, digestLog, pullVars>>

\* emailService.sendDailyDigest with the list of the matching crises: it
\* resolves to true or false, and a rejection is caught and logged
DigestSend(cadence) ==
    /\ digest[cadence].pc = "loop"
    /\ LET s == digest[cadence].subscribers[digest[cadence].idx]
           matching == MatchingCrisesOf(s, digest[cadence].recentCrises)
       IN  /\ matching # {}
           /\ \E delivered \in BOOLEAN :
                 digestLog' = [digestLog EXCEPT ![cadence] = Append(@,
                     [subscription |-> s, crises |-> matching, delivered |-> delivered])]
    /\ digest' = [digest EXCEPT ![cadence] = DigestAdvance(cadence)]
    /\ UNCHANGED <<now, crises, sweepVars, batchVars, recvVars, jobVars, pullVars>>

----------------------------------------------------------------------------
(* Classification batch: processUnanalyzedEvents *)

\* table Event at start: a fresh event, and an event that is 30 days old
\* after two ticks of the clock
SeedEvents ==
    << [title |-> <<"S">>, source |-> <<"r">>, publishedAt |-> 0 - 10, location |-> NoText,
        crisisId |-> 0, analyzed |-> FALSE],
       [title |-> <<"O">>, source |-> <<"w">>, publishedAt |-> 0 - 43170, location |-> <<"b">>,
        crisisId |-> 0, analyzed |-> FALSE] >>

CrisisTypes ==
    {"NATURAL_DISASTER", "CONFLICT", "DISEASE_OUTBREAK", "FOOD_SECURITY", "DISPLACEMENT",
     "INFRASTRUCTURE", "ECONOMIC", "ENVIRONMENTAL", "OTHER"}

mapCrisisType(aiType) == IF aiType \in CrisisTypes THEN aiType ELSE "OTHER"

mapSeverity(aiSeverity) == IF aiSeverity \in Severities THEN aiSeverity ELSE "UNKNOWN"

\* Array.prototype.indexOf on ['UNKNOWN', 'LOW', 'MEDIUM', 'HIGH', 'CRITICAL']
SeverityIndexOf(x) == IF x \in Severities THEN severityOrder[x] ELSE 0 - 1

shouldUpdateCrisisSeverity(current, incoming) ==
    SeverityIndexOf(incoming) > SeverityIndexOf(current)

NotRelevant ==
    [isRelevantCrisis |-> FALSE, crisisType |-> "OTHER", severity |-> "LOW",
     confidence |-> 0, locations |-> <<>>]

\* what the classifier may answer for the content of an event, drawn anew at
\* every call (the classifier is a remote language model): the type and the
\* locations follow the content, the relevance and the severity vary.  The
\* content of event 1 names the place of the seeded conflict; the other
\* contents name no place and get a type the enum does not have.
AnalysisResults(e) ==
    {NotRelevant} \cup
    [isRelevantCrisis : {TRUE},
     crisisType : {IF e = 1 THEN "CONFLICT" ELSE "WAR"},
     severity : {"HIGH", "CRITICAL", "SEVERE"},
     confidence : {IF e = 1 THEN 90 ELSE 60},
     locations : {IF e = 1 THEN << <<"A", "b">> >> ELSE <<>>}]

UnknownLocation ==
    <<"U", "n", "k", "n", "o", "w", "n", " ", "L", "o", "c", "a", "t", "i", "o", "n">>

UpperChars == {"A", "B", "S", "U", "L"}

\* /^[A-Z][a-z]+(\s[A-Z][a-z]+)*$/ on the one-word texts of the model
IsCountryLike(loc) ==
    /\ Len(loc) >= 2
    /\ loc[1] \in UpperChars
    /\ \A i \in 2..Len(loc) : loc[i] \notin UpperChars /\ loc[i] # " "

extractCountry(locations) ==
    LET countries == SelectSeq(locations, IsCountryLike)
    IN  IF countries = <<>> THEN NoText ELSE countries[1]

\* { contains: s, mode: 'insensitive' } on a nullable column
ContainsInsensitive(column, s) ==
    column # NoText /\ Includes(ToLowerCase(column), ToLowerCase(s))

OpenStatuses == {"EMERGING", "ONGOING", "DEVELOPING"}

\* the where clause of findMatchingCrisis
MatchingCrises(event, analysis) ==
    {c \in DOMAIN crises :
        /\ crises[c].type = mapCrisisType(analysis.crisisType)
        /\ crises[c].status \in OpenStatuses
        /\ \/ \E i \in DOMAIN analysis.locations :
                \/ ContainsInsensitive(crises[c].location, analysis.locations[i])
                \/ ContainsInsensitive(crises[c].country, analysis.locations[i])
                \/ ContainsInsensitive(crises[c].region, analysis.locations[i])
           \/ /\ event.location # NoText
              /\ ContainsInsensitive(crises[c].location, event.location)}

\* a query without the ordering: any row may come first
InAnyOrder(S) == S

\* orderBy detectedAt desc, take 1: the rows the query may return first
MostRecentlyDetected(S) ==
    {c \in S : \A d \in S : crises[d].detectedAt <= crises[c].detectedAt}

\* a row that takes the answer of the classifier as it comes
NewCrisisUnmapped(e, analysis) ==
    [type |-> analysis.crisisType,
     severity |-> analysis.severity,
     status |-> "EMERGING",
     confidence |-> analysis.confidence,
     location |-> IF analysis.locations # <<>> THEN analysis.locations[1]
                  ELSE IF events[e].location # NoText THEN events[e].location
                  ELSE UnknownLocation,
     country |-> extractCountry(analysis.locations),
     region |-> NoText,
     detectedAt |-> now, createdAt |-> now, origin |-> e]

\* a row that takes the place of the Event as the region as well
NewCrisisInRegion(e, analysis) ==
    LET place == IF analysis.locations # <<>> THEN analysis.locations[1]
                 ELSE IF events[e].location # NoText THEN events[e].location
                 ELSE UnknownLocation
    IN  [type |-> mapCrisisType(analysis.crisisType),
         severity |-> mapSeverity(analysis.severity),
         status |-> "EMERGING",
         confidence |-> analysis.confidence,
         location |-> place,
         country |-> extractCountry(analysis.locations),
         region |-> place,
         detectedAt |-> now, createdAt |-> now, origin |-> e]

\* the row createCrisisFromAnalysis creates
NewCrisis(e, analysis) ==
    [type |-> mapCrisisType(analysis.crisisType),
     severity |-> mapSeverity(analysis.severity),
     status |-> "EMERGING",
     confidence |-> analysis.confidence,
     location |-> IF analysis.locations # <<>> THEN analysis.locations[1]
                  ELSE IF events[e].location # NoText THEN events[e].location
                  ELSE UnknownLocation,
     country |-> extractCountry(analysis.locations),
     region |-> NoText,
     detectedAt |-> now, createdAt |-> now, origin |-> e]

\* the events ordered by publishedAt, newest first
RECURSIVE NewestFirst(_)
NewestFirst(S) ==
    IF S = {} THEN <<>>
    ELSE LET m == CHOOSE x \in S : \A y \in S :
                      \/ events[y].publishedAt < events[x].publishedAt
                      \/ events[y].publishedAt = events[x].publishedAt /\ x <= y
         IN  <<m>> \o NewestFirst(S \ {m})

Take(seq, n) == SubSeq(seq, 1, IF Len(seq) < n THEN Len(seq) ELSE n)

\* event.findMany({where: {crisisId: null}, orderBy: {publishedAt: 'desc'}, take})
UnanalyzedEvents(batchSize) ==
    Take(NewestFirst({e \in DOMAIN events : events[e].crisisId = 0}), batchSize)

\* the entry points: the scheduled tick and triggerAIAnalysis hold the flag,
\* POST /process-events calls processUnanalyzedEvents directly
Batchers == {"cron", "trigger", "route"}

Flagged == {"cron", "trigger"}

\* what a caller may pass as batchSize (1..50 by the route's schema)
BatchSizes == {1, CronBatchSize}

ZeroStats == [processed |-> 0, crisesCreated |-> 0, crisesUpdated |-> 0, errors |-> 0]

NoCrisis == [id |-> 0, severity |-> "UNKNOWN"]

IdleBatch ==
    [pc |-> "idle", events |-> <<>>, idx |-> 0, thirtyDaysAgo |-> 0,
     analysis |-> NotRelevant, existingCrisis |-> NoCrisis, stats |-> ZeroStats]

CurrentEvent(b) == batch[b].events[batch[b].idx]

\* a comparison that lets the event 30 days and 30 minutes old through
IsStaleLate(b, e) == events[e].publishedAt < batch[b].thirtyDaysAgo - HourMinutes

\* event.publishedAt < thirtyDaysAgo
IsStale(b, e) == events[e].publishedAt < batch[b].thirtyDaysAgo

SeverityMax(m, n) == IF m < n THEN n ELSE m

\* the run reads the unlinked events; with none it returns at once
StartBatch(b, batchSize) ==
    LET selected == UnanalyzedEvents(batchSize)
    IN  /\ batch' = [batch EXCEPT ![b] =
               IF selected = <<>> THEN IdleBatch
               ELSE [IdleBatch EXCEPT !.pc = "event", !.events = selected, !.idx = 1,
                                      !.thirtyDaysAgo = now - ThirtyDaysMinutes]]
        /\ isAnalysisRunning' =
               IF b \in Flagged /\ selected # <<>> THEN TRUE ELSE isAnalysisRunning

\* the loop goes on to the next event, or the run returns its statistics; the
\* finally block of a flagged entry point then clears the flag
NextEvent(b, stats) ==
    /\ batch' = [batch EXCEPT ![b] =
           IF batch[b].idx < Len(batch[b].events)
           THEN [@ EXCEPT !.pc = "event", !.idx = @ + 1, !.analysis = NotRelevant,
                          !.existingCrisis = NoCrisis, !.stats = stats]
           ELSE IdleBatch]
    /\ isAnalysisRunning' =
           IF batch[b].idx = Len(batch[b].events) /\ b \in Flagged
           THEN FALSE ELSE isAnalysisRunning

\* cron '*/15 * * * *': skipped while the flag is set
ScheduledAnalysis ==
    /\ batch["cron"].pc = "idle"
    /\ ~ isAnalysisRunning
    /\ StartBatch("cron", CronBatchSize)
    /\ UNCHANGED <<now, crises, events, classified, linkedSeverity, sweepVars, recvVars, jobVars, digestVars, pullVars>>

\* triggerAIAnalysis(batchSize): throws while the flag is set
TriggerAIAnalysis ==
    /\ batch["trigger"].pc = "idle"
    /\ ~ isAnalysisRunning
    /\ \E batchSize \in BatchSizes : StartBatch("trigger", batchSize)
    /\ UNCHANGED <<now, crises, events, classified, linkedSeverity, sweepVars, recvVars, jobVars, digestVars, pullVars>>

\* the size of the batches an operator triggers again and again
DrainBatchSize == 1

\* triggerAIAnalysis(batchSize) called with the same size every time
TriggerFixedSize ==
    /\ batch["trigger"].pc = "idle"
    /\ ~ isAnalysisRunning
    /\ StartBatch("trigger", DrainBatchSize)
    /\ UNCHANGED <<now, crises, events, classified, linkedSeverity, sweepVars, recvVars, jobVars, digestVars, pullVars>>

\* POST /process-events: no flag is read or set
ProcessEventsRoute ==
    /\ batch["route"].pc = "idle"
    /\ \E batchSize \in BatchSizes : StartBatch("route", batchSize)
    /\ UNCHANGED <<now, crises, events, classified, linkedSeverity, sweepVars, recvVars, jobVars, digestVars, pullVars>>

\* an event older than 30 days: analyzed is set and the loop continues
BatchSkipOld(b) ==
    /\ batch[b].pc = "event"
    /\ IsStale(b, CurrentEvent(b))
    /\ events' = [events EXCEPT ![CurrentEvent(b)].analyzed = TRUE]
    /\ NextEvent(b, [batch[b].stats EXCEPT !.processed = @ + 1])
    /\ UNCHANGED <<now, crises, classified, linkedSeverity, sweepVars, recvVars, jobVars, digestVars, pullVars>>

\* a loop without the test of relevance
AfterAnalysisUntested(analysis) == "match"

\* if (!analysis.isRelevantCrisis): the place the loop goes on at
AfterAnalysis(analysis) == IF analysis.isRelevantCrisis THEN "match" ELSE "irrelevant"

\* analyzeContent: it throws, or answers; not relevant content is skipped next
BatchAnalyze(b) ==
    /\ batch[b].pc = "event"
    /\ ~ IsStale(b, CurrentEvent(b))
    /\ classified' = classified \cup {CurrentEvent(b)}
    /\ \/ batch' = [batch EXCEPT ![b] = [@ EXCEPT !.pc = "catch"]]
       \/ \E analysis \in AnalysisResults(CurrentEvent(b)) :
            batch' = [batch EXCEPT ![b] =
                [@ EXCEPT !.pc = AfterAnalysis(analysis),
                          !.analysis = analysis,
                          !.stats = [@ EXCEPT !.processed = @ + 1]]]
    /\ UNCHANGED <<now, crises, events, isAnalysisRunning, linkedSeverity, sweepVars, recvVars, jobVars, digestVars, pullVars>>

\* not a crisis: analyzed is set, crisisId stays null
BatchSkipIrrelevant(b) ==
    /\ batch[b].pc = "irrelevant"
    /\ events' = [events EXCEPT ![CurrentEvent(b)].analyzed = TRUE]
    /\ NextEvent(b, batch[b].stats)
    /\ UNCHANGED <<now, crises, classified, linkedSeverity, sweepVars, recvVars, jobVars, digestVars, pullVars>>

\* findMatchingCrisis: the run keeps the id and the severity it has read
BatchFindMatching(b) ==
    /\ batch[b].pc = "match"
    /\ LET found == MatchingCrises(events[CurrentEvent(b)], batch[b].analysis)
       IN  IF found = {}
           THEN batch' = [batch EXCEPT ![b] = [@ EXCEPT !.pc = "create"]]
           ELSE \E c \in MostRecentlyDetected(found) :
                    batch' = [batch EXCEPT ![b] =
                        [@ EXCEPT !.pc = "link",
                                  !.existingCrisis = [id |-> c, severity |-> crises[c].severity]]]
    /\ UNCHANGED <<now, crises, events, isAnalysisRunning, classified, linkedSeverity,
                   sweepVars, recvVars, jobVars, digestVars, pullVars>>

\* event.update({crisisId, analyzed: true}); the crisis update follows when
\* the severity read earlier is lower than the incoming one
BatchLink(b) ==
    /\ batch[b].pc = "link"
    /\ events' = [events EXCEPT ![CurrentEvent(b)] =
           [@ EXCEPT !.crisisId = batch[b].existingCrisis.id, !.analyzed = TRUE]]
    /\ linkedSeverity' = [linkedSeverity EXCEPT ![batch[b].existingCrisis.id] =
           SeverityMax(@, severityToNumber(mapSeverity(batch[b].analysis.severity)))]
    /\ IF shouldUpdateCrisisSeverity(batch[b].existingCrisis.severity,
                                     batch[b].analysis.severity)
       THEN /\ batch' = [batch EXCEPT ![b] = [@ EXCEPT !.pc = "severity"]]
            /\ UNCHANGED isAnalysisRunning
       ELSE NextEvent(b, [batch[b].stats EXCEPT !.crisesUpdated = @ + 1])
    /\ UNCHANGED <<now, crises, classified, sweepVars, recvVars, jobVars, digestVars, pullVars>>

\* crisis.update({severity: mapSeverity(analysis.severity)})
BatchUpdateSeverity(b) ==
    /\ batch[b].pc = "severity"
    /\ crises' = [crises EXCEPT ![batch[b].existingCrisis.id].severity =
           mapSeverity(batch[b].analysis.severity)]
    /\ NextEvent(b, [batch[b].stats EXCEPT !.crisesUpdated = @ + 1])
    /\ UNCHANGED <<now, events, classified, linkedSeverity, sweepVars, recvVars, jobVars, digestVars, pullVars>>

\* createCrisisFromAnalysis: crisis.create, which connects the event
BatchCreateCrisis(b) ==
    /\ batch[b].pc = "create"
    /\ crises' = Append(crises, NewCrisis(CurrentEvent(b), batch[b].analysis))
    /\ events' = [events EXCEPT ![CurrentEvent(b)].crisisId = Len(crises) + 1]
    /\ linkedSeverity' = Append(linkedSeverity,
           severityToNumber(mapSeverity(batch[b].analysis.severity)))
    /\ batch' = [batch EXCEPT ![b] = [@ EXCEPT !.pc = "created"]]
    /\ UNCHANGED <<now, isAnalysisRunning, classified, sweepVars, recvVars, jobVars, digestVars, pullVars>>

\* createCrisisFromAnalysis: event.update({analyzed: true})
BatchMarkAnalyzed(b) ==
    /\ batch[b].pc = "created"
    /\ events' = [events EXCEPT ![CurrentEvent(b)].analyzed = TRUE]
    /\ NextEvent(b, [batch[b].stats EXCEPT !.crisesCreated = @ + 1])
    /\ UNCHANGED <<now, crises, classified, linkedSeverity, sweepVars, recvVars, jobVars, digestVars, pullVars>>

\* a catch block that counts the error and leaves the event as it is
BatchCatchUnmarked(b) ==
    /\ batch[b].pc = "catch"
    /\ NextEvent(b, [batch[b].stats EXCEPT !.errors = @ + 1])
    /\ UNCHANGED <<now, crises, events, classified, linkedSeverity, sweepVars, recvVars, jobVars, digestVars, pullVars>>

\* the catch block of the loop: errors++, analyzed is set
BatchCatch(b) ==
    /\ batch[b].pc = "catch"
    /\ events' = [events EXCEPT ![CurrentEvent(b)].analyzed = TRUE]
    /\ NextEvent(b, [batch[b].stats EXCEPT !.errors = @ + 1])
    /\ UNCHANGED <<now, crises, classified, linkedSeverity, sweepVars, recvVars, jobVars, digestVars, pullVars>>

\* the places of the loop where a write to the store is awaited
AtStoreWrite(b) ==
    \/ batch[b].pc \in {"irrelevant", "link", "severity", "create", "created"}
    \/ batch[b].pc = "event" /\ IsStale(b, CurrentEvent(b))

\* a write awaited inside the try block rejects: nothing is written and the
\* catch block of the loop runs next
BatchStepRejects(b) ==
    /\ AtStoreWrite(b)
    /\ batch' = [batch EXCEPT ![b] = [@ EXCEPT !.pc = "catch"]]
    /\ UNCHANGED <<now, crises, events, isAnalysisRunning, classified, linkedSeverity,
                   sweepVars, recvVars, jobVars, digestVars, pullVars>>

----------------------------------------------------------------------------
(* Webhook receipt: POST /receive/:endpoint *)

\* a header of the request: absent, or present with its text
NoHeader == [present |-> FALSE, value |-> NoText]

Header(text) == [present |-> TRUE, value |-> text]

NoSignature == [xWebhookSignature |-> NoHeader, xHubSignature256 |-> NoHeader]

\* the characters of the bodies and of the secrets
Alphabet ==
    <<"{", "}", " ", "t", "d", "l", "w", "F", "Q", "K", "0", "x", "k", "n", "m", "S">>

CharCode(ch) == CHOOSE i \in 1..Len(Alphabet) : Alphabet[i] = ch

HexDigits ==
    <<"0", "1", "2", "3", "4", "5", "6", "7", "8", "9", "a", "b", "c", "d", "e", "f">>

RECURSIVE Mix(_, _)
Mix(h, text) ==
    IF text = <<>> THEN h
    ELSE Mix((h * 31 + CharCode(Head(text))) % 256, Tail(text))

\* crypto.createHmac('sha256', key).update(message).digest('hex'): a keyed
\* digest of fixed length, in hex; distinct keys and messages of the model
\* get distinct digests
Hmac(key, message) ==
    LET h == Mix(Mix(7, key), message)
    IN  <<HexDigits[(h \div 16) + 1], HexDigits[(h % 16) + 1]>>

Sha256Prefix == <<"s", "h", "a", "2", "5", "6", "=">>

\* String.prototype.indexOf, 1-based; 0 when pattern does not occur
IndexOf(text, pattern) ==
    LET hits == {i \in 1..(Len(text) - Len(pattern) + 1) :
                    SubSeq(text, i, i + Len(pattern) - 1) = pattern}
    IN  IF hits = {} THEN 0 ELSE CHOOSE i \in hits : \A j \in hits : i <= j

\* String.prototype.replace(pattern, ''): the first occurrence is removed,
\* wherever it is
Replace(text, pattern) ==
    LET i == IndexOf(text, pattern)
    IN  IF i = 0 THEN text
        ELSE SubSeq(text, 1, i - 1) \o SubSeq(text, i + Len(pattern), Len(text))

\* express.json(): the body text of the model is '{', then fields of one
\* key character and one value character, then '}', with blanks anywhere
\* between them; the parsed body is the sequence of <<key, value>>
JsonParse(raw) ==
    LET text == SelectSeq(raw, LAMBDA ch : ch /= " ")
        inner == SubSeq(text, 2, Len(text) - 1)
    IN  [i \in 1..(Len(inner) \div 2) |-> <<inner[2 * i - 1], inner[2 * i]>>]

\* JSON.stringify: the fields in their order, no blanks
JsonStringify(body) == <<"{">> \o Flatten(body) \o <<"}">>

\* payload.key || '': the text of a field, empty when the field is missing
Field(payload, key) ==
    LET hits == {i \in DOMAIN payload : payload[i][1] = key}
    IN  IF hits = {} THEN NoText
        ELSE <<payload[CHOOSE i \in hits : \A j \in hits : j <= i][2]>>

\* crypto.timingSafeEqual on the bytes of two texts: a RangeError when the
\* lengths differ
timingSafeEqual(a, b) ==
    IF Len(a) /= Len(b) THEN "RangeError"
    ELSE IF a = b THEN "equal" ELSE "different"

\* req.headers['x-webhook-signature'] || req.headers['x-hub-signature-256']:
\* a missing header and an empty one are both falsy
Truthy(header) == header.present /\ header.value /= NoText

SignatureOf(headers) ==
    IF Truthy(headers.xWebhookSignature) THEN headers.xWebhookSignature
    ELSE headers.xHubSignature256

\* the errors the handler ends with, and its acknowledgment
NoResponse == [kind |-> "none", statusCode |-> 0, eventId |-> 0]

AppError(statusCode) == [kind |-> "AppError", statusCode |-> statusCode, eventId |-> 0]

RangeError == [kind |-> "RangeError", statusCode |-> 0, eventId |-> 0]

Accepted(eventId) == [kind |-> "Accepted", statusCode |-> 202, eventId |-> eventId]

\* the signature block of the handler: NoResponse when the request passes
VerifySignature(secret, headers, body) ==
    LET signature == SignatureOf(headers)
    IN  IF ~Truthy(signature) THEN NoResponse
        ELSE LET expectedSig == Hmac(secret, JsonStringify(body))
                 providedSig == Replace(signature.value, Sha256Prefix)
                 same == timingSafeEqual(expectedSig, providedSig)
             IN  CASE same = "RangeError" -> RangeError
                   [] same = "different" -> AppError(401)
                   [] OTHER -> NoResponse

\* table Webhook at start: an active endpoint with a filter policy, and an
\* inactive one
SeedWebhooks ==
    << [endpoint |-> "alerts", isActive |-> TRUE, secret |-> <<"k">>,
        sourceType |-> "CUSTOM", keywords |-> << <<"f">> >>, regions |-> << <<"s">> >>,
        minSeverity |-> "MEDIUM", totalEvents |-> 5, failedEvents |-> 1],
       [endpoint |-> "retired", isActive |-> FALSE, secret |-> <<"m">>,
        sourceType |-> "CUSTOM", keywords |-> <<>>, regions |-> <<>>,
        minSeverity |-> "", totalEvents |-> 3, failedEvents |-> 0] >>

\* the secrets an endpoint may get
Secrets == {<<"k">>, <<"n">>}

Endpoints == {"alerts", "retired", "nowhere"}

\* the bodies senders post: a titled report, the same with a blank in it,
\* an empty object, a report with a date that is none, a report from a place
\* outside the regions of the policy, a report without the keyword
TitledBody == <<"{", "t", "F", "}">>

SpacedBody == <<"{", " ", "t", "F", "}">>

EmptyBody == <<"{", "}">>

BadDateBody == <<"{", "t", "F", "w", "x", "}">>

OtherRegionBody == <<"{", "t", "F", "l", "K", "}">>

NoKeywordBody == <<"{", "t", "Q", "}">>

\* a report from a place inside the regions of the policy
RegionBody == <<"{", "t", "F", "l", "S", "}">>

\* a signature header of each of the two names
Bare(text) == [NoSignature EXCEPT !.xWebhookSignature = Header(text)]

Prefixed(text) == [NoSignature EXCEPT !.xHubSignature256 = Header(Sha256Prefix \o text)]

\* the signature headers a sender may put on the titled report: none, an
\* empty one, one too short, and for each secret the digest of the body,
\* bare, with the sha256= prefix, and with sha256= in the middle
SignatureHeaders(raw) ==
    LET digests == {Hmac(s, raw) : s \in Secrets}
    IN  {NoSignature, Bare(NoText), Bare(<<"0">>)}
        \cup {Bare(d) : d \in digests}
        \cup {Prefixed(d) : d \in digests}
        \cup {Bare(<<d[1]>> \o Sha256Prefix \o <<d[2]>>) : d \in digests}

\* the requests senders make: the titled report under every signature
\* header; the report with a blank signed over the bytes sent and over the
\* re-serialised body; requests to the other paths; the other bodies
RequestInputs ==
    {[endpoint |-> "alerts", rawBody |-> TitledBody, headers |-> h] :
        h \in SignatureHeaders(TitledBody)}
    \cup {[endpoint |-> "alerts", rawBody |-> SpacedBody, headers |-> Bare(Hmac(s, m))] :
        s \in Secrets, m \in {SpacedBody, JsonStringify(JsonParse(SpacedBody))}}
    \cup {[endpoint |-> e, rawBody |-> TitledBody, headers |-> h] :
        e \in Endpoints \ {"alerts"},
        h \in {NoSignature, Bare(Hmac(<<"m">>, TitledBody))}}
    \cup {[endpoint |-> "alerts", rawBody |-> raw, headers |-> NoSignature] :
        raw \in {EmptyBody, BadDateBody, OtherRegionBody, NoKeywordBody}}

\* one report of the region, signed with the secret of the endpoint, as a
\* sender that got no answer sends it again
ReplayInputs ==
    {[endpoint |-> "alerts", rawBody |-> RegionBody,
      headers |-> Bare(Hmac(SeedWebhooks[1].secret, RegionBody))]}

\* the requests, numbered in the order they arrive
Requests == {1, 2}

NoWebhook ==
    [id |-> 0, endpoint |-> "", isActive |-> FALSE, secret |-> NoText,
     sourceType |-> "", keywords |-> <<>>, regions |-> <<>>, minSeverity |-> "",
     totalEvents |-> 0, failedEvents |-> 0]

\* the row findUnique returns, with its id
WebhookRow(w) ==
    [id |-> w, endpoint |-> webhooks[w].endpoint, isActive |-> webhooks[w].isActive,
     secret |-> webhooks[w].secret, sourceType |-> webhooks[w].sourceType,
     keywords |-> webhooks[w].keywords, regions |-> webhooks[w].regions,
     minSeverity |-> webhooks[w].minSeverity, totalEvents |-> webhooks[w].totalEvents,
     failedEvents |-> webhooks[w].failedEvents]

\* webhook.findUnique({where: {endpoint}})
FindWebhook(endpoint) ==
    LET found == {w \in DOMAIN webhooks : webhooks[w].endpoint = endpoint}
    IN  IF found = {} THEN NoWebhook ELSE WebhookRow(CHOOSE w \in found : TRUE)

NewRequest ==
    [pc |-> "new", rawBody |-> NoText, body |-> <<>>, headers |-> NoSignature,
     webhook |-> NoWebhook, webhookEventId |-> 0, response |-> NoResponse]

\* an error that is reported while the handler runs on
ThrowAndGoOn(request, error) == [request EXCEPT !.pc = "store", !.response = error]

\* throw: the handler ends with the error as its response
Throw(request, error) == [request EXCEPT !.pc = "done", !.response = error]

\* the request arrives; webhook.findUnique, the checks of the endpoint and
\* of the signature
Receive(r, inputs) ==
    /\ requests[r].pc = "new"
    /\ \A q \in Requests : q < r => requests[q].pc /= "new"
    /\ \E input \in inputs :
          LET webhook == FindWebhook(input.endpoint)
              body == JsonParse(input.rawBody)
              request == [requests[r] EXCEPT !.rawBody = input.rawBody, !.body = body,
                                             !.headers = input.headers,
                                             !.webhook = webhook]
              verdict == VerifySignature(webhook.secret, input.headers, body)
          IN  requests' = [requests EXCEPT ![r] =
                  IF webhook.id = 0 THEN Throw(request, AppError(404))
                  ELSE IF ~webhook.isActive THEN Throw(request, AppError(403))
                  ELSE IF verdict /= NoResponse THEN Throw(request, verdict)
                  ELSE [request EXCEPT !.pc = "store"]]
    /\ UNCHANGED <<now, crises, events, webhooks, webhookEvents, tasks, errorLog,
                   sweepVars, batch, isAnalysisRunning, classified, linkedSeverity, jobVars, digestVars, pullVars>>

\* a request of any sender
RecvFind(r) == Receive(r, RequestInputs)

\* a request that repeats the signed report
RecvReplay(r) == Receive(r, ReplayInputs)

\* the requests to the active endpoint that carry no signature: all pass
UnsignedInputs ==
    {input \in RequestInputs : input.endpoint = "alerts" /\ input.headers = NoSignature}

\* a request that is accepted, with any of the bodies
RecvUnsigned(r) == Receive(r, UnsignedInputs)

\* a message of a chat channel
TextBody == <<"{", "x", "F", "}">>

\* the unsigned requests, with a report of a listed region and a chat message
PolicyInputs ==
    UnsignedInputs \cup
    {[endpoint |-> "alerts", rawBody |-> raw, headers |-> NoSignature] :
        raw \in {RegionBody, TextBody}}

RecvPolicy(r) == Receive(r, PolicyInputs)

\* the source kinds and the filter policies an endpoint is registered with
SourceKinds == {"CUSTOM", "SLACK"}

KeywordLists == {<<>>, << <<"f">> >>, << <<"z">>, <<"f">> >>}

RegionLists == {<<>>, << <<"s">> >>}

NoEventData ==
    [parsed |-> FALSE, title |-> NoText, description |-> NoText, source |-> NoText,
     location |-> NoText, publishedAt |-> NoText]

\* a call that starts after the write of PROCESSING
NewTaskAtLoad(webhook) ==
    [pc |-> "load", webhook |-> webhook, eventData |-> NoEventData,
     reason |-> "", event |-> 0, classifierFailed |-> FALSE, analyzeCalls |-> 0]

NewTask(webhook) ==
    [pc |-> "processing", webhook |-> webhook, eventData |-> NoEventData,
     reason |-> "", event |-> 0, classifierFailed |-> FALSE, analyzeCalls |-> 0]

\* webhookEvent.create({status: PENDING}); then processWebhookEvent is
\* called and not awaited
RecvStore(r) ==
    /\ requests[r].pc = "store"
    /\ webhookEvents' = Append(webhookEvents,
           [webhookId |-> requests[r].webhook.id, payload |-> requests[r].body,
            status |-> "PENDING", eventId |-> 0, error |-> ""])
    /\ tasks' = Append(tasks, NewTask(requests[r].webhook))
    /\ requests' = [requests EXCEPT ![r] =
           [@ EXCEPT !.pc = "count", !.webhookEventId = Len(webhookEvents) + 1]]
    /\ UNCHANGED <<now, crises, events, webhooks, errorLog,
                   sweepVars, batch, isAnalysisRunning, classified, linkedSeverity, jobVars, digestVars, pullVars>>

\* the answer of a handler that lets the outcome of the processing through
ReceiveResponseAwaited(r) ==
    IF tasks[requests[r].webhookEventId].pc \in {"catch", "countFailed", "rejected"}
    THEN [kind |-> "Error", statusCode |-> 0, eventId |-> 0]
    ELSE Accepted(requests[r].webhookEventId)

\* res.status(202).json({success, message, eventId})
ReceiveResponse(r) == Accepted(requests[r].webhookEventId)

\* an increment computed from the row the handler read at its start
TotalEventsFromSnapshot(r) == requests[r].webhook.totalEvents + 1

\* totalEvents: {increment: 1}, an increment the store performs on the row
TotalEventsIncremented(r) == webhooks[requests[r].webhook.id].totalEvents + 1

\* webhook.update({totalEvents: {increment: 1}}); res.status(202)
RecvCount(r) ==
    /\ requests[r].pc = "count"
    /\ webhooks' = [webhooks EXCEPT ![requests[r].webhook.id].totalEvents =
                        TotalEventsIncremented(r)]
    /\ requests' = [requests EXCEPT ![r] =
           [@ EXCEPT !.pc = "done", !.response = ReceiveResponse(r)]]
    /\ UNCHANGED <<now, crises, events, webhookEvents, tasks, errorLog,
                   sweepVars, batch, isAnalysisRunning, classified, linkedSeverity, jobVars, digestVars, pullVars>>

\* POST /:id/regenerate-secret; the model regenerates one secret, once
RegenerateSecret ==
    /\ \A w \in DOMAIN webhooks : webhooks[w].secret = SeedWebhooks[w].secret
    /\ \E w \in {x \in DOMAIN webhooks : webhooks[x].isActive} :
          \E newSecret \in Secrets \ {webhooks[w].secret} :
              webhooks' = [webhooks EXCEPT ![w].secret = newSecret]
    /\ UNCHANGED <<now, crises, events, requests, webhookEvents, tasks, errorLog,
                   sweepVars, batch, isAnalysisRunning, classified, linkedSeverity, jobVars, digestVars, pullVars>>

----------------------------------------------------------------------------
(* Webhook processing: processWebhookEvent *)

\* `custom-${Date.now()}`, `slack-${Date.now()}`, `teams-${Date.now()}`
Stamped(prefix) == <<prefix, "-", ToString(now)>>

\* the fields read below: "t" is title, "d" description, "x" text, "l"
\* location, "w" date, "u" url, "i" id
parseCustomWebhook(payload) ==
    LET title == Field(payload, "t")
        description == IF Field(payload, "d") /= NoText THEN Field(payload, "d")
                       ELSE Field(payload, "x")
    IN  IF title = NoText /\ description = NoText THEN NoEventData
        ELSE [parsed |-> TRUE,
              title |-> IF title /= NoText THEN title ELSE Take(description, 100),
              description |-> IF description /= NoText THEN description ELSE title,
              source |-> IF Field(payload, "u") /= NoText THEN Field(payload, "u")
                         ELSE IF Field(payload, "i") /= NoText THEN Field(payload, "i")
                         ELSE Stamped("c"),
              location |-> Field(payload, "l"),
              publishedAt |-> Field(payload, "w")]

\* Slack and Teams: the text is the title and the description; never null
parseMessagingWebhook(payload, source) ==
    LET text == Field(payload, "x")
        prefix == IF source = "SLACK" THEN "s" ELSE "t"
    IN  [parsed |-> TRUE, title |-> Take(text, 100), description |-> text,
         source |-> IF Field(payload, "i") /= NoText
                    THEN <<prefix, "-">> \o Field(payload, "i")
                    ELSE Stamped(prefix),
         location |-> NoText, publishedAt |-> NoText]

\* switch (webhook.sourceType)
ParseWebhook(sourceType, payload) ==
    IF sourceType \in {"SLACK", "TEAMS"} THEN parseMessagingWebhook(payload, sourceType)
    ELSE parseCustomWebhook(payload)

\* new Date(String(payload.date)): "0" is a date, any other text is an
\* Invalid Date, which event.create refuses
InvalidDate(text) == text /= NoText /\ text /= <<"0">>

\* filters whose region list also turns away the signal without a location
FilterReasonStrict(webhook, eventData) ==
    LET text == ToLowerCase(eventData.title \o <<" ">> \o eventData.description)
        place == ToLowerCase(eventData.location)
    IN  IF /\ Len(webhook.keywords) > 0
           /\ ~\E i \in DOMAIN webhook.keywords :
                   Includes(text, ToLowerCase(webhook.keywords[i]))
        THEN "No matching keywords"
        ELSE IF /\ Len(webhook.regions) > 0
                /\ ~\E i \in DOMAIN webhook.regions :
                        Includes(place, ToLowerCase(webhook.regions[i]))
        THEN "No matching regions"
        ELSE ""

\* the keyword and the region filter: the reason of the skip, "" when the
\* signal passes
FilterReason(webhook, eventData) ==
    LET text == ToLowerCase(eventData.title \o <<" ">> \o eventData.description)
        place == ToLowerCase(eventData.location)
    IN  IF /\ Len(webhook.keywords) > 0
           /\ ~\E i \in DOMAIN webhook.keywords :
                   Includes(text, ToLowerCase(webhook.keywords[i]))
        THEN "No matching keywords"
        ELSE IF /\ Len(webhook.regions) > 0
                /\ eventData.location /= NoText
                /\ ~\E i \in DOMAIN webhook.regions :
                        Includes(place, ToLowerCase(webhook.regions[i]))
        THEN "No matching regions"
        ELSE ""

\* webhookEvent.update({status: PROCESSING})
ProcMarkProcessing(t) ==
    /\ tasks[t].pc = "processing"
    /\ webhookEvents' = [webhookEvents EXCEPT ![t].status = "PROCESSING"]
    /\ tasks' = [tasks EXCEPT ![t].pc = "load"]
    /\ UNCHANGED <<now, crises, events, requests, webhooks, errorLog,
                   sweepVars, batch, isAnalysisRunning, classified, linkedSeverity, jobVars, digestVars, pullVars>>

\* webhookEvent.findUnique; the parser of the source kind, then the filters
ProcLoad(t) ==
    /\ tasks[t].pc = "load"
    /\ LET eventData == ParseWebhook(tasks[t].webhook.sourceType, webhookEvents[t].payload)
           reason == IF ~eventData.parsed THEN "Could not parse webhook payload"
                     ELSE FilterReason(tasks[t].webhook, eventData)
       IN  tasks' = [tasks EXCEPT ![t] =
               [@ EXCEPT !.pc = IF reason = "" THEN "createEvent" ELSE "skip",
                         !.eventData = eventData, !.reason = reason]]
    /\ UNCHANGED <<now, crises, events, requests, webhooks, webhookEvents, errorLog,
                   sweepVars, batch, isAnalysisRunning, classified, linkedSeverity, jobVars, digestVars, pullVars>>

\* webhookEvent.update({status: SKIPPED, error}); return
ProcSkip(t) ==
    /\ tasks[t].pc = "skip"
    /\ webhookEvents' = [webhookEvents EXCEPT ![t] =
           [@ EXCEPT !.status = "SKIPPED", !.error = tasks[t].reason]]
    /\ tasks' = [tasks EXCEPT ![t].pc = "resolved"]
    /\ UNCHANGED <<now, crises, events, requests, webhooks, errorLog,
                   sweepVars, batch, isAnalysisRunning, classified, linkedSeverity, jobVars, digestVars, pullVars>>

\* an error that no catch block takes: the call ends where it stands
Uncaught(t, message) == [tasks[t] EXCEPT !.pc = "unhandled", !.reason = message]

\* catch (error): the call goes on in the catch block with error.message
Caught(t, message) == [tasks[t] EXCEPT !.pc = "catch", !.reason = message]

\* event.create; it throws on an Invalid Date
ProcCreateEvent(t) ==
    /\ tasks[t].pc = "createEvent"
    /\ IF InvalidDate(tasks[t].eventData.publishedAt)
       THEN /\ tasks' = [tasks EXCEPT ![t] = Caught(t, "Invalid Date")]
            /\ UNCHANGED events
       ELSE /\ events' = Append(events,
                   [title |-> Take(tasks[t].eventData.title, 500),
                    source |-> tasks[t].eventData.source,
                    publishedAt |-> IF tasks[t].eventData.publishedAt = NoText
                                    THEN now ELSE 0,
                    location |-> tasks[t].eventData.location,
                    crisisId |-> 0, analyzed |-> FALSE])
            /\ tasks' = [tasks EXCEPT ![t] =
                   [@ EXCEPT !.pc = "analyze", !.event = Len(events) + 1]]
    /\ UNCHANGED <<now, crises, requests, webhooks, webhookEvents, errorLog,
                   sweepVars, batch, isAnalysisRunning, classified, linkedSeverity, jobVars, digestVars, pullVars>>

\* what analyzeContent may do for a signal: throw, or answer with a severity
WebhookAnalysisOutcomes == {"throws", "LOW", "HIGH"}

\* Array.prototype.indexOf on ['LOW', 'MEDIUM', 'HIGH', 'CRITICAL']
WebhookSeverityIndexOf(x) ==
    IF x \in Severities \ {"UNKNOWN"} THEN severityOrder[x] - 1 ELSE 0 - 1

\* analyzeContent in its own try, whose catch block is empty; the severity
\* filter of the endpoint.  The call keeps whether the classifier threw.
ProcAnalyze(t) ==
    /\ tasks[t].pc = "analyze"
    /\ \E outcome \in WebhookAnalysisOutcomes :
          LET minSeverity == tasks[t].webhook.minSeverity
              below == /\ outcome /= "throws"
                       /\ minSeverity /= ""
                       /\ WebhookSeverityIndexOf(outcome) < WebhookSeverityIndexOf(minSeverity)
          IN  tasks' = [tasks EXCEPT ![t] =
                  [@ EXCEPT !.pc = IF below THEN "belowThreshold" ELSE "success",
                            !.reason = IF below THEN "Severity below threshold" ELSE "",
                            !.classifierFailed = (outcome = "throws"),
                            !.analyzeCalls = @ + 1]]
    /\ UNCHANGED <<now, crises, events, requests, webhooks, webhookEvents, errorLog,
                   sweepVars, batch, isAnalysisRunning, classified, linkedSeverity, jobVars, digestVars, pullVars>>

\* an update that writes the status and leaves the reference out
SucceededUnlinked(t) == [webhookEvents[t] EXCEPT !.status = "SUCCESS"]

\* data: {status: WebhookEventStatus.SUCCESS, eventId: event.id}
Succeeded(t) ==
    [webhookEvents[t] EXCEPT !.status = "SUCCESS", !.eventId = tasks[t].event]

\* webhookEvent.update({status: SUCCESS, eventId, error: 'Severity ... below
\* threshold ...'}); return
ProcBelowThreshold(t) ==
    /\ tasks[t].pc = "belowThreshold"
    /\ webhookEvents' = [webhookEvents EXCEPT ![t] =
           [Succeeded(t) EXCEPT !.error = tasks[t].reason]]
    /\ tasks' = [tasks EXCEPT ![t].pc = "resolved"]
    /\ UNCHANGED <<now, crises, events, requests, webhooks, errorLog,
                   sweepVars, batch, isAnalysisRunning, classified, linkedSeverity, jobVars, digestVars, pullVars>>

\* webhookEvent.update({status: SUCCESS, eventId})
ProcSuccess(t) ==
    /\ tasks[t].pc = "success"
    /\ webhookEvents' = [webhookEvents EXCEPT ![t] = Succeeded(t)]
    /\ tasks' = [tasks EXCEPT ![t].pc = "resolved"]
    /\ UNCHANGED <<now, crises, events, requests, webhooks, errorLog,
                   sweepVars, batch, isAnalysisRunning, classified, linkedSeverity, jobVars, digestVars, pullVars>>

\* the catch block: webhookEvent.update({status: FAILED, error})
ProcCatchFailed(t) ==
    /\ tasks[t].pc = "catch"
    /\ webhookEvents' = [webhookEvents EXCEPT ![t] =
           [@ EXCEPT !.status = "FAILED", !.error = tasks[t].reason]]
    /\ tasks' = [tasks EXCEPT ![t].pc = "countFailed"]
    /\ UNCHANGED <<now, crises, events, requests, webhooks, errorLog,
                   sweepVars, batch, isAnalysisRunning, classified, linkedSeverity, jobVars, digestVars, pullVars>>

\* the catch block: webhook.update({failedEvents: {increment: 1}}), then
\* throw; the .catch of the route takes the rejection and logs it
ProcCountFailed(t) ==
    /\ tasks[t].pc = "countFailed"
    /\ webhooks' = [webhooks EXCEPT ![tasks[t].webhook.id].failedEvents = @ + 1]
    /\ tasks' = [tasks EXCEPT ![t].pc = "rejected"]
    /\ errorLog' = errorLog \cup {t}
    /\ UNCHANGED <<now, crises, events, requests, webhookEvents,
                   sweepVars, batch, isAnalysisRunning, classified, linkedSeverity, jobVars, digestVars, pullVars>>

----------------------------------------------------------------------------
(* The scheduler: the run-lock flags of the ingestion, analysis and summary jobs *)

\* the flagged jobs; the body of each is taken as a chain of awaits
Jobs == {"ingestion", "analysis", "summary"}

\* the jobs that have a manual trigger
Triggered == {"ingestion", "analysis"}

\* no job is running: the flags as declared, before any tick
JobsIdle ==
    /\ isIngestionRunning = FALSE
    /\ isSummaryGenerationRunning = FALSE
    /\ runs = [job \in Jobs |-> <<>>]
    /\ refusals = {}

Flag(job) ==
    CASE job = "ingestion" -> isIngestionRunning
      [] job = "analysis" -> isAnalysisRunning
      [] job = "summary" -> isSummaryGenerationRunning

SetFlag(job, value) ==
    /\ isIngestionRunning' = IF job = "ingestion" THEN value ELSE isIngestionRunning
    /\ isAnalysisRunning' = IF job = "analysis" THEN value ELSE isAnalysisRunning
    /\ isSummaryGenerationRunning' =
           IF job = "summary" THEN value ELSE isSummaryGenerationRunning

\* the first await of the body of a job
FirstAwait(job) ==
    CASE job = "ingestion" -> "runDataIngestion"
      [] job = "analysis" -> "processUnanalyzedEvents"
      [] job = "summary" -> "generateMissingSummaries"

\* the entry point of the run that holds the flag of a job
Holder(job) == IF runs[job] = <<>> THEN "none" ELSE runs[job][1].by

\* a test that lets every call through
NeverRunning(flag) == FALSE

\* if (isIngestionRunning), if (isAnalysisRunning), if (isSummaryGenerationRunning)
AlreadyRunning(flag) == flag

\* a call that finds the flag clear sets it and enters the try block
StartRun(job, by) ==
    /\ ~ AlreadyRunning(Flag(job))
    /\ SetFlag(job, TRUE)
    /\ runs' = [runs EXCEPT ![job] = Append(@, [by |-> by, pc |-> FirstAwait(job)])]
    /\ UNCHANGED refusals

\* a skipped tick that leaves a run to start later
RunsWithQueued(job) ==
    [runs EXCEPT ![job] = Append(@, [by |-> "cron", pc |-> "queued"])]

\* the runs after a tick that found the flag set: the callback returns
RunsAfterSkip(job) == runs

\* a check inside the try block, whose finally clears the flag
FlagAfterThrowInTry(job) == FALSE

\* the flag after a trigger that found it set: the throw is before the try
FlagAfterThrow(job) == Flag(job)

\* cron '*/30 * * * *', '*/15 * * * *' and '10,30,50 * * * *' with the flag clear
ScheduledRun(job) ==
    /\ StartRun(job, "cron")
    /\ UNCHANGED <<now, crises, sweepVars, events, batch, classified, linkedSeverity, recvVars, digestVars, pullVars>>

\* the same ticks with the flag set: a warning is logged and the callback returns
ScheduledRunSkipped(job) ==
    /\ AlreadyRunning(Flag(job))
    /\ refusals' = refusals \cup
           {[job |-> job, by |-> "cron", outcome |-> "skipped", holder |-> Holder(job)]}
    /\ runs' = RunsAfterSkip(job)
    /\ UNCHANGED <<isIngestionRunning, isAnalysisRunning, isSummaryGenerationRunning>>
    /\ UNCHANGED <<now, crises, sweepVars, events, batch, classified, linkedSeverity, recvVars, digestVars, pullVars>>

\* triggerDataIngestion() and triggerAIAnalysis() with the flag clear
TriggerRun(job) ==
    /\ job \in Triggered
    /\ StartRun(job, "trigger")
    /\ UNCHANGED <<now, crises, sweepVars, events, batch, classified, linkedSeverity, recvVars, digestVars, pullVars>>

\* the triggers with the flag set: Error('Data ingestion already running'),
\* Error('AI analysis already running')
TriggerThrows(job) ==
    /\ job \in Triggered
    /\ AlreadyRunning(Flag(job))
    /\ refusals' = refusals \cup
           {[job |-> job, by |-> "trigger", outcome |-> "error", holder |-> Holder(job)]}
    /\ SetFlag(job, FlagAfterThrow(job))
    /\ UNCHANGED runs
    /\ UNCHANGED <<now, crises, sweepVars, events, batch, classified, linkedSeverity, recvVars, digestVars, pullVars>>

\* await runDataIngestion() resolves: the run goes on to getIngestionStats()
RunGoesOn(job) ==
    /\ \E i \in DOMAIN runs[job] :
           /\ runs[job][i].pc = "runDataIngestion"
           /\ runs' = [runs EXCEPT ![job][i].pc = "getIngestionStats"]
    /\ UNCHANGED <<isIngestionRunning, isAnalysisRunning, isSummaryGenerationRunning, refusals>>
    /\ UNCHANGED <<now, crises, sweepVars, events, batch, classified, linkedSeverity, recvVars, digestVars, pullVars>>

\* the last await of the body of a job
LastAwait(job) ==
    CASE job = "ingestion" -> "getIngestionStats"
      [] job = "analysis" -> "processUnanalyzedEvents"
      [] job = "summary" -> "generateMissingSummaries"

\* the ways a run leaves its try block
Outcomes == {"returned", "threw"}

\* a flag cleared as the last statement of the try block, which a throw skips
FlagClearedInTry(job, outcome) == IF outcome = "threw" THEN Flag(job) ELSE FALSE

\* finally { isIngestionRunning = false }, and the same for the other two
FlagAfterRun(job, outcome) == FALSE

\* the last await of the body resolves, or any await rejects (the tick logs
\* the error, the trigger lets it through): the finally block clears the flag
RunEnds(job) ==
    \E i \in DOMAIN runs[job], outcome \in Outcomes :
        /\ runs[job][i].pc # "queued"
        /\ outcome = "returned" => runs[job][i].pc = LastAwait(job)
        /\ runs' = [runs EXCEPT ![job] =
               SubSeq(@, 1, i - 1) \o SubSeq(@, i + 1, Len(@))]
        /\ SetFlag(job, FlagAfterRun(job, outcome))
    /\ UNCHANGED refusals
    /\ UNCHANGED <<now, crises, sweepVars, events, batch, classified, linkedSeverity, recvVars, digestVars, pullVars>>

----------------------------------------------------------------------------
(* Data ingestion: runDataIngestion and the fetchers of its first phase *)

\* the two fetchers that read https://api.reliefweb.int/v1/reports
Fetchers == {"fetchReliefWeb", "fetchOCHASitReps"}

MaxIngestions == 2

\* the reports the upstream lists: the first is in the store already, the
\* second is a report of OCHA, the third is a report of another publisher
UpstreamReports ==
    << [url |-> <<"r">>, title |-> <<"S">>, shortname |-> "UNHCR", country |-> NoText],
       [url |-> <<"u">>, title |-> <<"F">>, shortname |-> "OCHA", country |-> <<"S", "u">>],
       [url |-> <<"v">>, title |-> <<"G">>, shortname |-> "WFP", country |-> NoText] >>

RECURSIVE Filtered(_, _)
\* filter: {field: 'source.shortname', value}
Filtered(reports, shortname) ==
    IF reports = <<>> THEN <<>>
    ELSE (IF Head(reports).shortname = shortname THEN <<Head(reports)>> ELSE <<>>)
             \o Filtered(Tail(reports), shortname)

\* response.data.data of axios.get for the fetcher
ReportsFor(f) ==
    IF f = "fetchOCHASitReps" THEN Filtered(UpstreamReports, "OCHA") ELSE UpstreamReports

IdleFetch == [pc |-> "idle", reports |-> <<>>, idx |-> 0]

PullIdle ==
    /\ ingestion = [pc |-> "idle", runs |-> 0]
    /\ fetch = [f \in Fetchers |-> IdleFetch]
    /\ pulled = {}

\* the data of event.create in the loop of the fetcher
PulledEvent(f, report) ==
    [title |-> IF f = "fetchOCHASitReps"
               THEN <<"O", "C", "H", "A", " ", "S", "i", "t", "R", "e", "p", ":", " ">>
                        \o report.title
               ELSE report.title,
     source |-> report.url,
     publishedAt |-> now,
     location |-> report.country,
     crisisId |-> 0,
     analyzed |-> FALSE]

\* the loop takes the next report, or the fetcher is over
FetchAdvance(f) ==
    IF fetch[f].idx < Len(fetch[f].reports)
    THEN [fetch[f] EXCEPT !.pc = "find", !.idx = @ + 1]
    ELSE [fetch[f] EXCEPT !.pc = "done"]

\* runDataIngestion starts: Promise.allSettled calls every fetcher of the
\* first phase, and each runs up to its first await
IngestionStart ==
    /\ ingestion.pc = "idle"
    /\ ingestion.runs < MaxIngestions
    /\ ingestion' = [pc |-> "phase1", runs |-> ingestion.runs + 1]
    /\ fetch' = [f \in Fetchers |-> [IdleFetch EXCEPT !.pc = "get"]]
    /\ UNCHANGED <<now, crises, sweepVars, batchVars, recvVars, jobVars, digestVars, pulled>>

\* await axios.get(...): the reports, or a rejection that the catch logs
FetchGet(f) ==
    /\ fetch[f].pc = "get"
    /\ \E answered \in BOOLEAN :
          fetch' = [fetch EXCEPT ![f] =
              IF answered /\ ReportsFor(f) # <<>>
              THEN [@ EXCEPT !.pc = "find", !.reports = ReportsFor(f), !.idx = 1]
              ELSE [@ EXCEPT !.pc = "done"]]
    /\ UNCHANGED <<now, crises, sweepVars, batchVars, recvVars, jobVars, digestVars,
                   ingestion, pulled>>

\* event.findFirst({where: {source: report.fields.url}})
ExistingEvent(url) == \E e \in DOMAIN events : events[e].source = url

\* await prisma.event.findFirst(...); if (!existing) goes on to the create
FetchFind(f) ==
    /\ fetch[f].pc = "find"
    /\ fetch' = [fetch EXCEPT ![f] =
           IF ExistingEvent(fetch[f].reports[fetch[f].idx].url)
           THEN FetchAdvance(f)
           ELSE [@ EXCEPT !.pc = "create"]]
    /\ UNCHANGED <<now, crises, sweepVars, batchVars, recvVars, jobVars, digestVars,
                   ingestion, pulled>>

\* the Event table: its source reference is a plain column, no unique key
SourceIsUnique == FALSE

\* await prisma.event.create({data}); a store that refused the row would
\* make the create reject, and the catch of the fetcher would end its loop
FetchCreate(f) ==
    /\ fetch[f].pc = "create"
    /\ IF SourceIsUnique /\ ExistingEvent(fetch[f].reports[fetch[f].idx].url)
       THEN /\ fetch' = [fetch EXCEPT ![f].pc = "done"]
            /\ UNCHANGED <<events, pulled>>
       ELSE /\ events' = Append(events, PulledEvent(f, fetch[f].reports[fetch[f].idx]))
            /\ pulled' = pulled \cup {Len(events) + 1}
            /\ fetch' = [fetch EXCEPT ![f] = FetchAdvance(f)]
    /\ UNCHANGED <<now, crises, sweepVars, batch, isAnalysisRunning, classified,
                   linkedSeverity, recvVars, jobVars, digestVars, ingestion>>

\* every fetcher of the first phase has settled; the later phases read
\* other upstreams, and the run returns
IngestionEnd ==
    /\ ingestion.pc = "phase1"
    /\ \A f \in Fetchers : fetch[f].pc = "done"
    /\ ingestion' = [ingestion EXCEPT !.pc = "idle"]
    /\ fetch' = [f \in Fetchers |-> IdleFetch]
    /\ UNCHANGED <<now, crises, sweepVars, batchVars, recvVars, jobVars, digestVars, pulled>>

----------------
(* The clock *)

Tick ==
    /\ now < MaxTicks * TickMinutes
    /\ now' = now + TickMinutes
    /\ UNCHANGED <<crises, sweepVars, batchVars, recvVars, jobVars, digestVars, pullVars>>

----------------------------------------------------------------------------
(* Specifications *)

Pairs == SubscriptionIds \X DOMAIN crises

InitWith(ledger) ==
    /\ now = 0
    /\ crises = SeedCrises
    /\ sentNotification = ledger
    /\ sweep = [p \in Sweepers |-> IdleSweep]
    /\ mailLog = <<>>
    /\ events = SeedEvents
    /\ batch = [b \in Batchers |-> IdleBatch]
    /\ isAnalysisRunning = FALSE
    /\ classified = {}
    /\ linkedSeverity = [c \in DOMAIN SeedCrises |-> severityToNumber(SeedCrises[c].severity)]
    /\ requests = [r \in Requests |-> NewRequest]
    /\ webhooks = SeedWebhooks
    /\ webhookEvents = <<>>
    /\ tasks = <<>>
    /\ errorLog = {}
    /\ JobsIdle
    /\ DigestsIdle
    /\ PullIdle

\* the store as seeded, the ledger empty
Init == InitWith(<<>>)

\* the store as seeded, the ledger as an earlier run may have left it
InitSweep == \E ledger \in SeedLedgers : InitWith(ledger)

SweepStep(p) ==
    \/ SweepLoadSubscribers(p)
    \/ SweepCheckLedger(p)
    \/ SweepCreate(p)
    \/ SweepSend(p)
    \/ SweepMarkSent(p)
    \/ SweepMarkFailed(p)

\* sweeps that run one after another
NextSweepSeq ==
    \/ Tick
    \/ \E p \in Sweepers : SweepStartAlone(p)
    \/ \E p \in Sweepers : SweepStep(p)

SpecSweepSeq == InitSweep /\ [][NextSweepSeq]_vars

\* the crises the digests meet: a conflict created now, a disaster that
\* leaves the day after one tick, a conflict that leaves the week after one
\* tick, and one older than a week
DigestCrises ==
    << [type |-> "CONFLICT", severity |-> "HIGH", status |-> "ONGOING", confidence |-> 50,
        location |-> <<"A", "b">>, country |-> NoText, region |-> <<"S", "u">>,
        detectedAt |-> 0, createdAt |-> 0, origin |-> 0],
       [type |-> "NATURAL_DISASTER", severity |-> "LOW", status |-> "EMERGING",
        confidence |-> 50,
        location |-> <<"b">>, country |-> NoText, region |-> NoText,
        detectedAt |-> 0, createdAt |-> 0 - DayMinutes + TickMinutes, origin |-> 0],
       [type |-> "CONFLICT", severity |-> "MEDIUM", status |-> "ONGOING", confidence |-> 50,
        location |-> <<"S", "u">>, country |-> NoText, region |-> <<"L", "a">>,
        detectedAt |-> 0, createdAt |-> 0 - WeekMinutes + TickMinutes, origin |-> 0],
       [type |-> "CONFLICT", severity |-> "CRITICAL", status |-> "ONGOING", confidence |-> 50,
        location |-> <<"S", "u">>, country |-> NoText, region |-> NoText,
        detectedAt |-> 0, createdAt |-> 0 - 2 * WeekMinutes, origin |-> 0] >>

InitDigest ==
    /\ now = 0
    /\ crises = DigestCrises
    /\ sentNotification = <<>>
    /\ sweep = [p \in Sweepers |-> IdleSweep]
    /\ mailLog = <<>>
    /\ events = <<>>
    /\ batch = [b \in Batchers |-> IdleBatch]
    /\ isAnalysisRunning = FALSE
    /\ classified = {}
    /\ linkedSeverity = [c \in DOMAIN DigestCrises |-> severityToNumber(DigestCrises[c].severity)]
    /\ requests = [r \in Requests |-> NewRequest]
    /\ webhooks = SeedWebhooks
    /\ webhookEvents = <<>>
    /\ tasks = <<>>
    /\ errorLog = {}
    /\ JobsIdle
    /\ DigestsIdle
    /\ PullIdle

\* the daily and the weekly digest, each at any time of the clock
NextDigest ==
    \/ Tick
    \/ \E cadence \in Cadences : DigestStart(cadence)
    \/ \E cadence \in Cadences : DigestLoadSubscribers(cadence)
    \/ \E cadence \in Cadences : DigestSkip(cadence)
    \/ \E cadence \in Cadences : DigestSend(cadence)

SpecDigest == InitDigest /\ [][NextDigest]_vars

\* sweeps of the two cron jobs, which may overlap
NextSweep ==
    \/ Tick
    \/ \E p \in Sweepers : SweepStart(p)
    \/ \E p \in Sweepers : SweepStep(p)

SpecSweep == InitSweep /\ [][NextSweep]_vars

\* the crises a sweep may meet: of two types, of every severity, in a
\* region of the subscribers, in another one or in none, created now, half
\* an hour, an hour or an hour and a half ago
CrisisRows ==
    [type : {"CONFLICT", "FOOD_SECURITY"}, severity : Severities, status : {"EMERGING"},
     confidence : {50},
     location : {<<"A", "b">>}, country : {NoText},
     region : {NoText, <<"S", "u">>, <<"L", "a", "S", "U", "b">>, <<"L", "a">>},
     detectedAt : {0}, createdAt : {0, 0 - 30, 0 - 60, 0 - 90}, origin : {0}]

\* a store that holds one crisis, and an empty ledger
InitSelect ==
    /\ now = 0
    /\ \E row \in CrisisRows : crises = <<row>>
    /\ sentNotification = <<>>
    /\ sweep = [p \in Sweepers |-> IdleSweep]
    /\ mailLog = <<>>
    /\ events = <<>>
    /\ batch = [b \in Batchers |-> IdleBatch]
    /\ isAnalysisRunning = FALSE
    /\ classified = {}
    /\ linkedSeverity = <<0>>
    /\ requests = [r \in Requests |-> NewRequest]
    /\ webhooks = SeedWebhooks
    /\ webhookEvents = <<>>
    /\ tasks = <<>>
    /\ errorLog = {}
    /\ JobsIdle
    /\ DigestsIdle
    /\ PullIdle

\* sweeps, one after another, over a store with one crisis of any kind
SpecSelect == InitSelect /\ [][NextSweepSeq]_vars

BatchStep(b) ==
    \/ BatchSkipOld(b)
    \/ BatchAnalyze(b)
    \/ BatchSkipIrrelevant(b)
    \/ BatchFindMatching(b)
    \/ BatchLink(b)
    \/ BatchUpdateSeverity(b)
    \/ BatchCreateCrisis(b)
    \/ BatchMarkAnalyzed(b)
    \/ BatchCatch(b)

\* classification batches from the three entry points
NextBatch ==
    \/ Tick
    \/ ScheduledAnalysis
    \/ ProcessEventsRoute
    \/ \E b \in Batchers : BatchStep(b)

SpecBatch == Init /\ [][NextBatch]_vars

\* classification batches from the two entry points that hold the flag:
\* these run one after another
NextBatchSeq ==
    \/ Tick
    \/ ScheduledAnalysis
    \/ TriggerAIAnalysis
    \/ \E b \in Flagged : BatchStep(b)

SpecBatchSeq == Init /\ [][NextBatchSeq]_vars

\* a fourth crisis the matching step may meet: of the type of the first
\* Event or of the type unlisted answers fall under, open or stabilizing,
\* detected before or after the seeded ones; the seeded conflict is ongoing
\* or resolved
MatchRows ==
    [type : {"CONFLICT", "OTHER"}, severity : {"MEDIUM"},
     status : {"DEVELOPING", "STABILIZING"}, confidence : {50},
     location : {<<"A", "b">>}, country : {NoText}, region : {NoText},
     detectedAt : {0 - 60, 30}, createdAt : {0 - 60}, origin : {0}]

\* the second Event comes with a raw location or without one
RawLocations == {NoText, <<"b">>}

InitMatch ==
    /\ now = 0
    /\ \E row \in MatchRows : \E status \in {"ONGOING", "RESOLVED"} :
          crises = Append([SeedCrises EXCEPT ![1].status = status], row)
    /\ sentNotification = <<>>
    /\ sweep = [p \in Sweepers |-> IdleSweep]
    /\ mailLog = <<>>
    /\ \E raw \in RawLocations : events = [SeedEvents EXCEPT ![2].location = raw]
    /\ batch = [b \in Batchers |-> IdleBatch]
    /\ isAnalysisRunning = FALSE
    /\ classified = {}
    /\ linkedSeverity = [c \in 1..(Len(SeedCrises) + 1) |-> severityToNumber(crises[c].severity)]
    /\ requests = [r \in Requests |-> NewRequest]
    /\ webhooks = SeedWebhooks
    /\ webhookEvents = <<>>
    /\ tasks = <<>>
    /\ errorLog = {}
    /\ JobsIdle
    /\ DigestsIdle
    /\ PullIdle

\* batches one after another over a store with the fourth crisis
SpecMatch == InitMatch /\ [][NextBatchSeq]_vars

\* the same batches with writes to the store that may reject
NextBatchFaults ==
    \/ NextBatchSeq
    \/ \E b \in Flagged : BatchStepRejects(b)

SpecBatchFaults == Init /\ [][NextBatchFaults]_vars

\* batches of one fixed size triggered one after another; no Event arrives.
\* A batch is triggered whenever none runs, and every await of a run
\* resolves: the next batch and the next step of a run always come
NextDrain ==
    \/ Tick
    \/ TriggerFixedSize
    \/ BatchStep("trigger")
    \/ BatchStepRejects("trigger")

SpecDrain ==
    /\ Init
    /\ [][NextDrain]_vars
    /\ WF_vars(TriggerFixedSize)
    /\ WF_vars(BatchStep("trigger"))

\* the ticks of the three flagged jobs and the two triggers, with the runs
\* they start
NextJobs ==
    \/ \E job \in Jobs : ScheduledRun(job)
    \/ \E job \in Jobs : ScheduledRunSkipped(job)
    \/ \E job \in Triggered : TriggerRun(job)
    \/ \E job \in Triggered : TriggerThrows(job)
    \/ \E job \in Jobs : RunGoesOn(job)
    \/ \E job \in Jobs : RunEnds(job)

SpecJobs == Init /\ [][NextJobs]_vars

\* the store as seeded, the first Event linked to the seeded conflict as an
\* earlier batch leaves it, the second reported from a place that a
\* subscriber of the weekly digest has in its region list
InitEngine ==
    /\ now = 0
    /\ crises = SeedCrises
    /\ sentNotification = <<>>
    /\ sweep = [p \in Sweepers |-> IdleSweep]
    /\ mailLog = <<>>
    /\ events = [SeedEvents EXCEPT ![1].crisisId = 1, ![1].analyzed = TRUE,
                                   ![2].location = <<"L", "a">>]
    /\ batch = [b \in Batchers |-> IdleBatch]
    /\ isAnalysisRunning = FALSE
    /\ classified = {}
    /\ linkedSeverity = [c \in DOMAIN SeedCrises |-> severityToNumber(SeedCrises[c].severity)]
    /\ requests = [r \in Requests |-> NewRequest]
    /\ webhooks = SeedWebhooks
    /\ webhookEvents = <<>>
    /\ tasks = <<>>
    /\ errorLog = {}
    /\ JobsIdle
    /\ DigestsIdle
    /\ PullIdle

\* the scheduled batch with the immediate sweep and the weekly digest that
\* select the subscribers for the crises it creates; the one Event the batch
\* meets in this store is not stale and matches no open crisis, so the steps
\* of the batch are the classification and the creation
NextEngine ==
    \/ ScheduledAnalysis
    \/ BatchAnalyze("cron")
    \/ BatchSkipIrrelevant("cron")
    \/ BatchFindMatching("cron")
    \/ BatchCreateCrisis("cron")
    \/ BatchMarkAnalyzed("cron")
    \/ BatchCatch("cron")
    \/ SweepStartAlone("immediateNotifications")
    \/ SweepStep("immediateNotifications")
    \/ DigestStart("WEEKLY")
    \/ DigestLoadSubscribers("WEEKLY")
    \/ DigestSkip("WEEKLY")
    \/ DigestSend("WEEKLY")

SpecEngine == InitEngine /\ [][NextEngine]_vars

\* the runs of the ingestion, one after the other as the flag of the job
\* has it, with the fetchers of the first phase interleaved
NextPull ==
    \/ IngestionStart
    \/ \E f \in Fetchers : FetchGet(f)
    \/ \E f \in Fetchers : FetchFind(f)
    \/ \E f \in Fetchers : FetchCreate(f)
    \/ IngestionEnd

SpecPull == Init /\ [][NextPull]_vars

\* concurrent requests to the receipt route, the processing they start, and
\* the administrator regenerating a secret
NextReceive ==
    \/ \E r \in Requests : RecvFind(r)
    \/ \E r \in Requests : RecvStore(r)
    \/ \E r \in Requests : RecvCount(r)
    \/ \E t \in DOMAIN tasks : ProcMarkProcessing(t)
    \/ \E t \in DOMAIN tasks : ProcLoad(t)
    \/ \E t \in DOMAIN tasks : ProcSkip(t)
    \/ \E t \in DOMAIN tasks : ProcCreateEvent(t)
    \/ \E t \in DOMAIN tasks : ProcAnalyze(t)
    \/ \E t \in DOMAIN tasks : ProcBelowThreshold(t)
    \/ \E t \in DOMAIN tasks : ProcSuccess(t)
    \/ \E t \in DOMAIN tasks : ProcCatchFailed(t)
    \/ \E t \in DOMAIN tasks : ProcCountFailed(t)
    \/ RegenerateSecret

SpecReceive == Init /\ [][NextReceive]_vars

\* the steps of one call of processWebhookEvent
ProcessWebhookEvent(t) ==
    /\ t \in DOMAIN tasks
    /\ \/ ProcMarkProcessing(t)
       \/ ProcLoad(t)
       \/ ProcSkip(t)
       \/ ProcCreateEvent(t)
       \/ ProcAnalyze(t)
       \/ ProcBelowThreshold(t)
       \/ ProcSuccess(t)
       \/ ProcCatchFailed(t)
       \/ ProcCountFailed(t)

\* accepted requests and the processing they start, where every await of a
\* call settles and the event loop then runs its continuation: the store
\* and the classifier answer or fail, they do not hang
NextProcess ==
    \/ \E r \in Requests : RecvUnsigned(r)
    \/ \E r \in Requests : RecvStore(r)
    \/ \E r \in Requests : RecvCount(r)
    \/ \E t \in DOMAIN tasks : ProcMarkProcessing(t)
    \/ \E t \in DOMAIN tasks : ProcLoad(t)
    \/ \E t \in DOMAIN tasks : ProcSkip(t)
    \/ \E t \in DOMAIN tasks : ProcCreateEvent(t)
    \/ \E t \in DOMAIN tasks : ProcAnalyze(t)
    \/ \E t \in DOMAIN tasks : ProcBelowThreshold(t)
    \/ \E t \in DOMAIN tasks : ProcSuccess(t)
    \/ \E t \in DOMAIN tasks : ProcCatchFailed(t)
    \/ \E t \in DOMAIN tasks : ProcCountFailed(t)

\* the store as seeded, the active endpoint of any kind and filter policy
InitPolicy ==
    /\ \E kind \in SourceKinds, keywords \in KeywordLists, regions \in RegionLists :
           webhooks = [SeedWebhooks EXCEPT ![1] =
               [@ EXCEPT !.sourceType = kind, !.keywords = keywords, !.regions = regions]]
    /\ now = 0
    /\ crises = SeedCrises
    /\ sentNotification = <<>>
    /\ sweep = [p \in Sweepers |-> IdleSweep]
    /\ mailLog = <<>>
    /\ events = SeedEvents
    /\ batch = [b \in Batchers |-> IdleBatch]
    /\ isAnalysisRunning = FALSE
    /\ classified = {}
    /\ linkedSeverity = [c \in DOMAIN SeedCrises |-> severityToNumber(SeedCrises[c].severity)]
    /\ requests = [r \in Requests |-> NewRequest]
    /\ webhookEvents = <<>>
    /\ tasks = <<>>
    /\ errorLog = {}
    /\ JobsIdle
    /\ DigestsIdle
    /\ PullIdle

\* accepted requests to an endpoint of any kind and policy, and their processing
NextPolicy ==
    \/ \E r \in Requests : RecvPolicy(r)
    \/ \E r \in Requests : RecvStore(r)
    \/ \E r \in Requests : RecvCount(r)
    \/ \E t \in DOMAIN tasks : ProcMarkProcessing(t)
    \/ \E t \in DOMAIN tasks : ProcLoad(t)
    \/ \E t \in DOMAIN tasks : ProcSkip(t)
    \/ \E t \in DOMAIN tasks : ProcCreateEvent(t)
    \/ \E t \in DOMAIN tasks : ProcAnalyze(t)
    \/ \E t \in DOMAIN tasks : ProcBelowThreshold(t)
    \/ \E t \in DOMAIN tasks : ProcSuccess(t)
    \/ \E t \in DOMAIN tasks : ProcCatchFailed(t)
    \/ \E t \in DOMAIN tasks : ProcCountFailed(t)

SpecPolicy == InitPolicy /\ [][NextPolicy]_vars

SpecProcessFair ==
    /\ Init
    /\ [][NextProcess]_vars
    /\ \A t \in Requests : WF_vars(ProcessWebhookEvent(t))

\* a store with the seeded subscriptions and endpoints, before any Crisis
\* was detected and with no Event waiting for the classification batch
InitReplay ==
    /\ now = 0
    /\ crises = <<>>
    /\ sentNotification = <<>>
    /\ sweep = [p \in Sweepers |-> IdleSweep]
    /\ mailLog = <<>>
    /\ events = <<>>
    /\ batch = [b \in Batchers |-> IdleBatch]
    /\ isAnalysisRunning = FALSE
    /\ classified = {}
    /\ linkedSeverity = <<>>
    /\ requests = [r \in Requests |-> NewRequest]
    /\ webhooks = SeedWebhooks
    /\ webhookEvents = <<>>
    /\ tasks = <<>>
    /\ errorLog = {}
    /\ JobsIdle
    /\ DigestsIdle
    /\ PullIdle

\* both requests are answered and every processing call has returned
ReceiptsProcessed ==
    /\ \A r \in Requests : requests[r].pc = "done"
    /\ \A t \in DOMAIN tasks : tasks[t].pc \in {"resolved", "rejected"}

\* the classification batch has gone through every Event and is at rest
EventsCorrelated ==
    /\ ReceiptsProcessed
    /\ batch["cron"].pc = "idle"
    /\ \A e \in DOMAIN events : events[e].analyzed

\* no receipt is under way and every call of processWebhookEvent has ended
ReceiptsAtRest ==
    /\ \A r \in Requests : requests[r].pc \in {"new", "done"}
    /\ \A t \in DOMAIN tasks : tasks[t].pc \in {"resolved", "rejected"}

\* a signed report, received again after it has been processed, and its
\* processing, where the classifier answers and the severity passes the
\* filter of the endpoint; then the scheduled classification batch, as often
\* as it fires; then the sweeps of the two cron jobs, which may overlap
NextReplay ==
    \/ ReceiptsAtRest /\ \E r \in Requests : RecvReplay(r)
    \/ \E r \in Requests : RecvStore(r)
    \/ \E r \in Requests : RecvCount(r)
    \/ \E t \in DOMAIN tasks : ProcMarkProcessing(t)
    \/ \E t \in DOMAIN tasks : ProcLoad(t)
    \/ \E t \in DOMAIN tasks : ProcCreateEvent(t)
    \/ \E t \in DOMAIN tasks : ProcAnalyze(t)
    \/ \E t \in DOMAIN tasks : ProcSuccess(t)
    \/ /\ ReceiptsProcessed
       /\ \A t \in DOMAIN tasks : ~ tasks[t].classifierFailed
       /\ \A p \in Sweepers : sweep[p].pc = "idle"
       /\ ScheduledAnalysis
    \/ BatchAnalyze("cron")
    \/ BatchSkipIrrelevant("cron")
    \/ BatchFindMatching("cron")
    \/ BatchCreateCrisis("cron")
    \/ BatchMarkAnalyzed("cron")
    \/ BatchCatch("cron")
    \/ EventsCorrelated /\ \E p \in Sweepers : SweepStart(p)
    \/ \E p \in Sweepers : SweepStep(p)

SpecReplay == InitReplay /\ [][NextReplay]_vars

----------------------------------------------------------------------------
(* Immediate sweep: properties *)

\* the delivery attempts made for the pair
Attempts(pair) == Cardinality({i \in DOMAIN mailLog : mailLog[i] = pair})

RowsOf(pair) ==
    {n \in DOMAIN sentNotification :
        /\ sentNotification[n].subscriptionId = pair[1]
        /\ sentNotification[n].crisisId = pair[2]}

\* the pair is one the sweep started at time t has to notify
MatchingPairAt(pair, t) ==
    LET sub == AlertSubscriptions[pair[1]]
        crisis == crises[pair[2]]
    IN  /\ crisis.createdAt >= t - HourMinutes
        /\ severityToNumber(crisis.severity) >= severityToNumber("MEDIUM")
        /\ sub.frequency = "IMMEDIATE" /\ sub.emailVerified /\ sub.isActive
        /\ SubscriberMatches(sub, crisis)

AtMostOneRowAndAttempt ==
    \A pair \in Pairs : Cardinality(RowsOf(pair)) <= 1 /\ Attempts(pair) <= 1

SweptPairsHaveOneRow ==
    \A p \in Sweepers : sweep[p].pc = "done" =>
        \A pair \in Pairs :
            MatchingPairAt(pair, sweep[p].since) => Cardinality(RowsOf(pair)) = 1

\* a pair with a row gets no row and no attempt, except the attempt of the
\* sweep that has just created the row and is about to send
NoSecondAttempt ==
    \A pair \in Pairs :
        (/\ RowsOf(pair) # {}
         /\ ~ \E p \in Sweepers : sweep[p].pc = "send" /\ CurrentPair(p) = pair)
        => /\ Attempts(pair)' = Attempts(pair)
           /\ RowsOf(pair)' = RowsOf(pair)

\* C1: sweeps run one after another leave exactly one ledger row for every
\* matching (subscription, crisis) pair, and a pair that has a row of any
\* status gets no new row and no new delivery attempt.
C1_OneRowPerPair ==
    /\ [](AtMostOneRowAndAttempt /\ SweptPairsHaveOneRow)
    /\ [][NoSecondAttempt]_vars

\* both cron jobs have swept one after the other; the pair seeded with a
\* FAILED row was not attempted again and the other pair was attempted once
C1_Witness ==
    /\ \A p \in Sweepers : sweep[p].pc = "done" /\ sweep[p].work # <<>>
    /\ Len(sentNotification) = 2
    /\ sentNotification[1].status = "FAILED"
    /\ Attempts(<<1, 1>>) = 0
    /\ Attempts(<<2, 1>>) = 1

\* C2: under any interleaving of two sweeps that run at the same time, no
\* (subscription, crisis) pair gets more than one ledger row or more than
\* one delivery attempt.
C2_NoDuplicateUnderOverlap ==
    \A pair \in Pairs : Cardinality(RowsOf(pair)) < 2 /\ Attempts(pair) < 2

----------------------------------------------------------------------------
(* Classification batch: properties *)

BatchesIdle == \A b \in Batchers : batch[b].pc = "idle"

\* C3: no step of the Correlation Engine lowers a Crisis's severity, also
\* when two classification batches interleave, each reading the severity in
\* findMatchingCrisis and writing its own value later.
C3_SeverityNeverLowered ==
    [][\A c \in DOMAIN crises :
          severityToNumber(crises'[c].severity) >= severityToNumber(crises[c].severity)]_vars

\* C4: after processing, the severity of a Crisis is the maximum of its
\* initial severity and the classifier severities of the Events the batches
\* linked to it.
C4_SeverityIsMaxOfLinked ==
    BatchesIdle =>
        \A c \in DOMAIN crises : severityToNumber(crises[c].severity) = linkedSeverity[c]

\* the run b started more than 30 days after event e was published
PublishedOver30DaysBefore(e, b) ==
    events[e].publishedAt + ThirtyDaysMinutes < batch[b].thirtyDaysAgo + ThirtyDaysMinutes

C6_AnalyzedNeverSelectedAgain ==
    [][\A b \in Batchers : \A e \in DOMAIN events :
          (events[e].analyzed /\ batch[b].pc = "idle" /\ batch'[b].pc # "idle")
          => \A i \in DOMAIN batch'[b].events : batch'[b].events[i] # e]_vars

----------------------------------------------------------------------------
(* Webhook receipt: properties *)

\* the request has passed the checks of the endpoint: the path is
\* registered and the endpoint is active
Routed(r) == requests[r].pc /= "new" /\ requests[r].webhook.id /= 0 /\ requests[r].webhook.isActive

\* the request was accepted: it goes on to store the payload
Passed(r) == requests[r].pc \in {"store", "count"} \/ requests[r].response.kind = "Accepted"

Rejected(r) == requests[r].response.kind \notin {"none", "Accepted"}

\* the request carries a signature: one of the two headers with a text
SignaturePresent(r) ==
    \/ Truthy(requests[r].headers.xWebhookSignature)
    \/ Truthy(requests[r].headers.xHubSignature256)

SignatureValue(r) == SignatureOf(requests[r].headers).value

\* the header value without the sha256= it may start with
StripPrefix(text) ==
    IF Len(text) >= Len(Sha256Prefix) /\ SubSeq(text, 1, Len(Sha256Prefix)) = Sha256Prefix
    THEN SubSeq(text, Len(Sha256Prefix) + 1, Len(text))
    ELSE text

SignatureGood(r) ==
    StripPrefix(SignatureValue(r)) = Hmac(requests[r].webhook.secret, requests[r].rawBody)

\* C7: a request to a registered, active endpoint is accepted exactly when
\* it carries no signature header or the header value, after an optional
\* sha256= prefix is stripped, equals the hex HMAC-SHA256 of the body under
\* the endpoint's secret; every other signature value, whatever its length,
\* is rejected with InvalidSignature (401).
C7_AcceptsExactlyGoodSignatures ==
    \A r \in Requests : Routed(r) =>
        IF ~SignaturePresent(r) \/ SignatureGood(r)
        THEN Passed(r)
        ELSE requests[r].response = AppError(401)

RowsOfRequests == {requests[r].webhookEventId : r \in Requests} \ {0}

\* a rejected request has ended without a WebhookEvent, and every
\* WebhookEvent and every processing call belongs to an accepted request
RejectedStoresNothing ==
    /\ \A r \in Requests : Rejected(r) =>
           /\ requests[r].pc = "done"
           /\ requests[r].webhookEventId = 0
           /\ requests[r].response \in {AppError(404), AppError(403), AppError(401), RangeError}
    /\ DOMAIN webhookEvents = RowsOfRequests
    /\ DOMAIN tasks = RowsOfRequests
    /\ \A r \in Requests : requests[r].webhookEventId /= 0 => Passed(r)

\* the step that rejects a request writes nothing
RejectionWritesNothing ==
    \A r \in Requests : (~Rejected(r) /\ Rejected(r)') =>
        /\ webhookEvents' = webhookEvents
        /\ webhooks' = webhooks
        /\ tasks' = tasks
        /\ events' = events

\* C8: when the receipt route rejects a request (unknown path, inactive
\* endpoint, signature check failed), no WebhookEvent is stored, the
\* endpoint's totalEvents and failedEvents are unchanged and no
\* asynchronous processing is started.
C8_RejectionStoresNothing ==
    /\ []RejectedStoresNothing
    /\ [][RejectionWritesNothing]_vars

\* one request was rejected for its signature and one for its inactive
\* endpoint, and the store holds no WebhookEvent and the seeded counters
C8_Witness ==
    /\ requests[1].response = AppError(401)
    /\ requests[2].response = AppError(403)
    /\ webhookEvents = <<>>
    /\ tasks = <<>>
    /\ \A w \in DOMAIN webhooks :
          /\ webhooks[w].totalEvents = SeedWebhooks[w].totalEvents
          /\ webhooks[w].failedEvents = SeedWebhooks[w].failedEvents

AcceptedFor(w) ==
    {r \in Requests : requests[r].response.kind = "Accepted" /\ requests[r].webhook.id = w}

StoredFor(w) ==
    {r \in Requests : requests[r].webhookEventId /= 0 /\ requests[r].webhook.id = w}

\* per endpoint, as many WebhookEvents as requests that stored one, each
\* request with a row of its own, and totalEvents grown by the number of
\* requests acknowledged
OneRowAndOneCountPerReceipt ==
    /\ \A w \in DOMAIN webhooks :
          /\ Cardinality({e \in DOMAIN webhookEvents : webhookEvents[e].webhookId = w})
                = Cardinality(StoredFor(w))
          /\ webhooks[w].totalEvents = SeedWebhooks[w].totalEvents + Cardinality(AcceptedFor(w))
    /\ \A r, q \in Requests :
          (r /= q /\ requests[r].webhookEventId /= 0)
          => requests[r].webhookEventId /= requests[q].webhookEventId

\* the step that stores appends one PENDING row of the endpoint; the step
\* that acknowledges adds one to totalEvents
StoresPendingCountsOne ==
    \A r \in Requests :
        /\ (requests[r].webhookEventId = 0 /\ requests'[r].webhookEventId /= 0) =>
              /\ Len(webhookEvents') = Len(webhookEvents) + 1
              /\ requests'[r].webhookEventId = Len(webhookEvents')
              /\ webhookEvents'[Len(webhookEvents')].status = "PENDING"
              /\ webhookEvents'[Len(webhookEvents')].webhookId = requests[r].webhook.id
              /\ webhookEvents'[Len(webhookEvents')].payload = JsonParse(requests[r].rawBody)
        /\ (requests[r].response.kind = "none" /\ requests'[r].response.kind = "Accepted") =>
              webhooks'[requests[r].webhook.id].totalEvents
                 = webhooks[requests[r].webhook.id].totalEvents + 1

\* C9: every accepted receipt stores exactly one WebhookEvent in status
\* PENDING and adds exactly one to the endpoint's totalEvents; under any
\* interleaving of concurrent accepted receipts to one endpoint there are
\* as many WebhookEvents as receipts and totalEvents has grown by that many.
C9_OneEventAndOneCountPerReceipt ==
    /\ []OneRowAndOneCountPerReceipt
    /\ [][StoresPendingCountsOne]_vars

\* two receipts that both read the endpoint before either was counted have
\* been acknowledged: two rows, and totalEvents grown by two
C9_Witness ==
    /\ \A r \in Requests :
          /\ requests[r].response.kind = "Accepted"
          /\ requests[r].webhook.id = 1
          /\ requests[r].webhook.totalEvents = SeedWebhooks[1].totalEvents
    /\ Len(webhookEvents) = 2
    /\ webhooks[1].totalEvents = SeedWebhooks[1].totalEvents + 2

FailedTasksOf(w) == {t \in DOMAIN tasks : tasks[t].pc = "rejected" /\ tasks[t].webhook.id = w}

\* a request that has stored its payload answers with the acknowledgment
\* and nothing else, and its answer waits for no step of the processing
AcknowledgedWhateverTheOutcome ==
    \A r \in Requests :
        /\ (requests[r].webhookEventId /= 0 /\ requests[r].pc = "done")
              => requests[r].response = Accepted(requests[r].webhookEventId)
        /\ requests[r].pc = "count" => ENABLED RecvCount(r)

\* a processing call that has failed has left the WebhookEvent FAILED with
\* the error text, is counted in failedEvents, and its rejection was taken
\* by the route's handler
FailureRecorded ==
    /\ \A t \in DOMAIN tasks : tasks[t].pc = "rejected" =>
          /\ webhookEvents[t].status = "FAILED"
          /\ webhookEvents[t].error /= ""
          /\ t \in errorLog
    /\ \A w \in DOMAIN webhooks :
          webhooks[w].failedEvents = SeedWebhooks[w].failedEvents + Cardinality(FailedTasksOf(w))

\* a step of the processing changes no request
ProcessingLeavesRequests ==
    (\E t \in DOMAIN tasks : tasks'[t] /= tasks[t]) => requests' = requests

----------------------------------------------------------------------------
(* Replayed receipt: properties *)

\* the crises the batch created from, or linked to, an Event of a webhook
CrisesOfWebhookEvents ==
    {c \in DOMAIN crises :
        \E t \in DOMAIN tasks : tasks[t].event /= 0 /\ events[tasks[t].event].crisisId = c}

\* C11: a signed payload received twice is stored as two WebhookEvents, and
\* when both have been processed, correlated and swept, no subscriber has
\* been notified twice for the same (subscriber, crisis) pair.
C11_ReplayStoredTwiceNotifiedOnce ==
    /\ (\A r \in Requests : requests[r].pc = "done") => Len(webhookEvents) = Cardinality(Requests)
    /\ \A s \in SubscriptionIds : \A c \in CrisesOfWebhookEvents :
          /\ Attempts(<<s, c>>) <= 1
          /\ Cardinality(RowsOf(<<s, c>>)) <= 1

----------------------------------------------------------------------------
(* Subscriber selection: properties *)

\* text r occurs in text t when the case of the letters is ignored
CaseInsensitiveSubstring(r, t) ==
    \E k \in 0..(Len(t) - Len(r)) :
        \A i \in 1..Len(r) : LowerChar(t[k + i]) = LowerChar(r[i])

AtLeast(severity, minimum) ==
    \/ minimum = "UNKNOWN"
    \/ minimum = "LOW" /\ severity \in {"LOW", "MEDIUM", "HIGH", "CRITICAL"}
    \/ minimum = "MEDIUM" /\ severity \in {"MEDIUM", "HIGH", "CRITICAL"}
    \/ minimum = "HIGH" /\ severity \in {"HIGH", "CRITICAL"}
    \/ minimum = "CRITICAL" /\ severity = "CRITICAL"

\* the conditions under which a sweep started at time t is to select
\* subscription s for crisis c
ToBeSelected(s, c, t) ==
    LET sub == AlertSubscriptions[s]
        crisis == crises[c]
    IN  /\ t - crisis.createdAt <= HourMinutes
        /\ AtLeast(crisis.severity, "MEDIUM")
        /\ sub.frequency = "IMMEDIATE"
        /\ sub.emailVerified
        /\ sub.isActive
        /\ sub.regions = {} \/ \E r \in sub.regions : CaseInsensitiveSubstring(r, crisis.region)
        /\ sub.crisisTypes = {} \/ crisis.type \in sub.crisisTypes
        /\ AtLeast(crisis.severity, sub.minSeverity)

SelectedBy(p) == {sweep[p].work[i] : i \in DOMAIN sweep[p].work}

\* C12: in the immediate sweep a subscription is selected for a crisis if
\* and only if the crisis was created within the last hour with severity
\* MEDIUM or higher, the subscription is IMMEDIATE, verified and active, its
\* region list is empty or has a region that is a case-insensitive substring
\* of the crisis region, its type list is empty or has the crisis type, and
\* the crisis severity is at least its minSeverity.
C12_SelectedIffMatching ==
    \A p \in Sweepers : sweep[p].pc \notin {"idle", "subscribers"} =>
        \A s \in SubscriptionIds : \A c \in DOMAIN crises :
            <<s, c>> \in SelectedBy(p) <=> ToBeSelected(s, c, sweep[p].since)

\* a sweep over a CRITICAL conflict in a region no subscriber lists has
\* selected the subscriber of conflicts from HIGH and the subscriber
\* without filters, and not the subscriber of another region
C12_Witness ==
    /\ crises[1].type = "CONFLICT"
    /\ crises[1].severity = "CRITICAL"
    /\ crises[1].region = <<"L", "a">>
    /\ sweep["earlyWarning"].pc = "done"
    /\ SelectedBy("earlyWarning") = {<<1, 1>>, <<5, 1>>}

----------------------------------------------------------------------------
(* The scheduler: properties *)

\* C13: for each flagged job type (ingestion, analysis, summary generation)
\* at most one run started by a scheduled tick or by triggerDataIngestion /
\* triggerAIAnalysis is in progress at any time.
C13_OneRunPerFlaggedJob ==
    \A job \in Jobs : Len(runs[job]) <= 1

\* the three jobs run at once, each has turned a tick away, and the two
\* triggers have been refused as well
C13_Witness ==
    /\ \A job \in Jobs : Len(runs[job]) = 1
    /\ \A job \in Jobs : \E r \in refusals : r.job = job /\ r.by = "cron"
    /\ \A job \in Triggered : \E r \in refusals : r.job = job /\ r.by = "trigger"

\* C14: no two executions of processUnanalyzedEvents overlap, whichever
\* entry point started them (the scheduled tick, triggerAIAnalysis or
\* POST /process-events).
C14_NoOverlappingBatches ==
    Cardinality({b \in Batchers : batch[b].pc # "idle"}) <= 1

Flags == <<isIngestionRunning, isAnalysisRunning, isSummaryGenerationRunning>>

\* the calls of one kind that this step turns away
TurnedAway(by) == {r \in refusals' \ refusals : r.by = by}

\* C15: triggerDataIngestion / triggerAIAnalysis called while the flag of
\* its job is set fails at once with the already-running error, starts no
\* run and does not clear the flag; the next trigger is still refused until
\* the run that holds the flag ends.
C15_RefusedTriggerLeavesFlagAndRun ==
    /\ [][\A r \in TurnedAway("trigger") :
              /\ r.outcome = "error"
              /\ Flag(r.job)
              /\ Flags' = Flags
              /\ runs' = runs]_vars
    /\ [](\A job \in Triggered :
              runs[job] # <<>> =>
                  /\ ~ ENABLED TriggerRun(job)
                  /\ ENABLED TriggerThrows(job))

\* a trigger of the ingestion was refused while a tick's run held the flag,
\* and that run has gone on since: the flag is still set
C15_Witness ==
    /\ [job |-> "ingestion", by |-> "trigger", outcome |-> "error", holder |-> "cron"]
           \in refusals
    /\ isIngestionRunning
    /\ runs["ingestion"] = <<[by |-> "cron", pc |-> "getIngestionStats"]>>

\* C16: a scheduled tick that fires while the flag of its job is set starts
\* no run, raises no error and is not queued; the flag and the run in
\* progress are unchanged.
C16_SkippedTickLeavesFlagAndRun ==
    /\ [][\A r \in TurnedAway("cron") :
              /\ r.outcome = "skipped"
              /\ Flag(r.job)
              /\ Flags' = Flags
              /\ runs' = runs]_vars
    /\ [](\A job \in Jobs : ~ Flag(job) => runs[job] = <<>>)

\* a tick of the summary job and a tick of the analysis job were skipped, the
\* second while a triggered run held the flag; both runs are still in progress
C16_Witness ==
    /\ [job |-> "summary", by |-> "cron", outcome |-> "skipped", holder |-> "cron"]
           \in refusals
    /\ [job |-> "analysis", by |-> "cron", outcome |-> "skipped", holder |-> "trigger"]
           \in refusals
    /\ runs["summary"] # <<>>
    /\ runs["analysis"] = <<[by |-> "trigger", pc |-> "processUnanalyzedEvents"]>>

----------------------------------------------------------------------------
(* Webhook processing: properties *)

TerminalStatuses == {"SUCCESS", "FAILED", "SKIPPED"}

\* the positions of a call that has written a terminal status
AfterTerminal == {"resolved", "countFailed", "rejected"}

\* C17: the status of a WebhookEvent only moves PENDING -> PROCESSING -> one
\* of SUCCESS / FAILED / SKIPPED; once it is terminal no later step changes
\* the row or processes it again.
C17_StatusMovesForwardOnly ==
    /\ [][/\ \A e \in DOMAIN webhookEvents' \ DOMAIN webhookEvents :
                webhookEvents'[e].status = "PENDING"
          /\ \A e \in DOMAIN webhookEvents :
                LET before == webhookEvents[e].status
                    after == webhookEvents'[e].status
                IN  /\ before = "PENDING" => after \in {"PENDING", "PROCESSING"}
                    /\ before = "PROCESSING" => after \in {"PROCESSING"} \cup TerminalStatuses
                    /\ before \in TerminalStatuses =>
                           /\ webhookEvents'[e] = webhookEvents[e]
                           /\ tasks'[e].pc \in AfterTerminal]_vars
    /\ [](/\ Len(tasks) = Len(webhookEvents)
          /\ \A e \in DOMAIN webhookEvents :
                webhookEvents[e].status \in TerminalStatuses <=> tasks[e].pc \in AfterTerminal)

\* one report has ended FAILED and its call has been rejected, another has
\* ended SKIPPED or SUCCESS and its call has returned
C17_Witness ==
    \E e, f \in DOMAIN webhookEvents :
        /\ webhookEvents[e].status = "FAILED"
        /\ tasks[e].pc = "rejected"
        /\ webhookEvents[f].status \in {"SKIPPED", "SUCCESS"}
        /\ tasks[f].pc = "resolved"

----------------------------------------------------------------------------
(* Classification batch: the content that is no crisis *)

\* run b holds the answer of the classifier for its current event, and the
\* answer is that the content is no crisis
JudgedNotRelevant(b) ==
    /\ batch[b].pc \notin {"idle", "event", "catch"}
    /\ ~ batch[b].analysis.isRelevantCrisis

C20_ClassifierFailureEndsFailed ==
    \A t \in DOMAIN tasks :
        tasks[t].classifierFailed /\ tasks[t].pc \in {"resolved", "rejected"} =>
            /\ webhookEvents[t].status = "FAILED"
            /\ webhookEvents[t].error # ""
            /\ webhooks[tasks[t].webhook.id].failedEvents >
                   SeedWebhooks[tasks[t].webhook.id].failedEvents

----------------------------------------------------------------------------
(* Immediate sweep: delivery failures *)

\* C21: when the email transport fails to deliver an immediate alert, the
\* ledger row of that (subscription, crisis) pair ends FAILED and not SENT,
\* and the sweep still attempts delivery for every other matching
\* subscriber of the same sweep.
C21_FailedDeliveryEndsFailed ==
    [][\A p \in Sweepers :
          /\ sweep[p].pc = "mark"
          /\ ~ sweep[p].delivered
          /\ sweep'[p] # sweep[p]
          => /\ sentNotification'[sweep[p].notification].status # "SENT"
             /\ sweep'[p].pc \in {"catch", "check", "done"}]_vars

----------------------------------------------------------------------------
(* Webhook processing: the parsers and the filters *)

\* the call for WebhookEvent t has ended
Ended(t) == tasks[t].pc \in {"resolved", "rejected"}

\* the payload has none of the fields the parser of the kind takes the title
\* or the description from
NothingToExtract(sourceType, payload) ==
    IF sourceType \in {"SLACK", "TEAMS"} THEN Field(payload, "x") = NoText
    ELSE Field(payload, "t") = NoText /\ Field(payload, "d") = NoText
         /\ Field(payload, "x") = NoText

\* C22: for every source kind, a payload from which neither a title nor a
\* description can be extracted is discarded as unparseable: its WebhookEvent
\* ends SKIPPED with a stated reason, no Event is created and the classifier
\* is not invoked.
C22_UnparseableIsSkipped ==
    \A t \in DOMAIN tasks :
        Ended(t) /\ NothingToExtract(tasks[t].webhook.sourceType, webhookEvents[t].payload) =>
            /\ webhookEvents[t].status = "SKIPPED"
            /\ webhookEvents[t].error # ""
            /\ tasks[t].event = 0
            /\ Len(events) = Len(SeedEvents) +
                   Cardinality({u \in DOMAIN tasks : tasks[u].event # 0})

\* the conditions under which a normalized signal is to fail the filters of
\* its endpoint
FailsFilters(webhook, signal) ==
    \/ /\ webhook.keywords # <<>>
       /\ \A i \in DOMAIN webhook.keywords :
              ~ CaseInsensitiveSubstring(webhook.keywords[i],
                    signal.title \o <<" ">> \o signal.description)
    \/ /\ webhook.regions # <<>>
       /\ signal.location # NoText
       /\ \A i \in DOMAIN webhook.regions :
              ~ CaseInsensitiveSubstring(webhook.regions[i], signal.location)

\* C23: a normalized signal fails the filters exactly when the keyword list
\* of the endpoint is non-empty and no keyword is a case-insensitive
\* substring of title+description, or the region list is non-empty, a
\* location was extracted and no listed region is a case-insensitive
\* substring of it; a failing signal ends its WebhookEvent SKIPPED with the
\* reason recorded, creates no Event and never reaches the classifier; a
\* signal with no extracted location is never rejected by the region list.
C23_FilteredExactlyByPolicy ==
    \A t \in DOMAIN tasks :
        Ended(t) /\ tasks[t].eventData.parsed =>
            /\ webhookEvents[t].status = "SKIPPED"
                   <=> FailsFilters(tasks[t].webhook, tasks[t].eventData)
            /\ webhookEvents[t].status = "SKIPPED" =>
                   /\ webhookEvents[t].error \in {"No matching keywords", "No matching regions"}
                   /\ tasks[t].event = 0
                   /\ ~ tasks[t].classifierFailed
            /\ tasks[t].eventData.location = NoText =>
                   webhookEvents[t].error # "No matching regions"

\* at an endpoint with a region list, a report of another region was
\* skipped for its region, and a report without a location became an Event
C23_Witness ==
    \E t, u \in DOMAIN tasks :
        /\ Ended(t) /\ Ended(u)
        /\ tasks[t].webhook.regions # <<>>
        /\ tasks[t].eventData.location # NoText
        /\ webhookEvents[t].status = "SKIPPED"
        /\ webhookEvents[t].error = "No matching regions"
        /\ tasks[u].eventData.parsed
        /\ tasks[u].eventData.location = NoText
        /\ tasks[u].event # 0

----------------------------------------------------------------------------
(* Secret rotation *)

\* the request read its endpoint after the secret of the endpoint was regenerated
AfterRotation(r) ==
    /\ Routed(r)
    /\ requests[r].webhook.secret # SeedWebhooks[requests[r].webhook.id].secret

\* the header value is the digest of the body sent under the given secret
SignedWith(r, secret) ==
    /\ SignaturePresent(r)
    /\ StripPrefix(SignatureValue(r)) = Hmac(secret, requests[r].rawBody)

\* C24: after regenerate-secret completes for an endpoint, every later
\* receipt signed with the old secret is rejected and receipts signed with
\* the new secret are accepted, while the id, path, active flag, filter
\* policy and counters of the endpoint are unchanged.
C24_RotationSwitchesSecret ==
    /\ [](\A r \in Requests : AfterRotation(r) =>
              /\ SignedWith(r, SeedWebhooks[requests[r].webhook.id].secret) => Rejected(r)
              /\ SignedWith(r, requests[r].webhook.secret) => Passed(r))
    /\ [][\A w \in DOMAIN webhooks :
              webhooks'[w].secret # webhooks[w].secret =>
                  webhooks' = [webhooks EXCEPT ![w].secret = webhooks'[w].secret]]_vars

----------------------------------------------------------------------------
(* Failures inside a classification batch *)

\* the run of b returns in this step
BatchReturns(b) == batch[b].pc # "idle" /\ batch'[b].pc = "idle"

----------------------------------------------------------------------------
(* Draining the backlog *)

\* the Events no batch has marked analyzed yet
NotAnalyzed == {e \in DOMAIN events : ~ events[e].analyzed}

\* C26: with no new Events arriving, repeated batches of one fixed size
\* drain the backlog: the number of Events not yet marked analyzed never
\* grows, and every Event is eventually marked by some batch, whatever the
\* batches find for the newest unlinked Events.
C26_BacklogDrains ==
    /\ [][Cardinality(NotAnalyzed') <= Cardinality(NotAnalyzed)]_vars
    /\ \A e \in DOMAIN SeedEvents : <>(events[e].analyzed)

----------------------------------------------------------------------------
(* Linking an Event to the Crisis the matching step found *)

\* the run of b takes a step of the branch that follows a match, and the
\* write of the step succeeds
LinkStep(b) ==
    /\ batch[b].pc \in {"link", "severity"}
    /\ batch'[b] # batch[b]
    /\ batch'[b].pc # "catch"

\* C27: when the matching step has found a Crisis for a relevant Event, the
\* batch links the Event to it and creates no Crisis; of that Crisis only the
\* severity may change, to the incoming severity and only when that is
\* strictly higher than the severity the Crisis has; no other Crisis changes.
C27_LinkChangesSeverityOnly ==
    [][\A b \in Batchers : LinkStep(b) =>
          /\ Len(crises') = Len(crises)
          /\ batch[b].pc = "link" =>
                events'[CurrentEvent(b)].crisisId = batch[b].existingCrisis.id
          /\ \A c \in DOMAIN crises :
                /\ crises'[c] = [crises[c] EXCEPT !.severity = crises'[c].severity]
                /\ crises'[c].severity # crises[c].severity =>
                      /\ c = batch[b].existingCrisis.id
                      /\ crises'[c].severity = mapSeverity(batch[b].analysis.severity)
                      /\ severityToNumber(crises'[c].severity) >
                             severityToNumber(crises[c].severity)]_vars

----------------------------------------------------------------------------
(* The matching step *)

\* the run of b comes back from findMatchingCrisis in this step
MatchStep(b) == batch[b].pc = "match" /\ batch'[b] # batch[b]

\* C28: the matching step only returns a Crisis that is EMERGING, DEVELOPING
\* or ONGOING and of the type the Event was classified as; when several
\* crises qualify it returns one detected no earlier than any other; with no
\* extracted location and no raw location of the Event it returns none.
C28_MatchIsOpenSameTypeLatest ==
    [][\A b \in Flagged : MatchStep(b) =>
          LET event == events[CurrentEvent(b)]
              analysis == batch[b].analysis
              found == batch'[b].existingCrisis.id
          IN  /\ batch'[b].pc \in {"link", "create"}
              /\ batch'[b].pc = "link" =>
                    /\ found \in DOMAIN crises
                    /\ crises[found].status \in {"EMERGING", "DEVELOPING", "ONGOING"}
                    /\ crises[found].type = mapCrisisType(analysis.crisisType)
                    /\ \A other \in MatchingCrises(event, analysis) :
                          crises[other].detectedAt <= crises[found].detectedAt
              /\ (analysis.locations = <<>> /\ event.location = NoText) =>
                    batch'[b].pc = "create"]_vars

\* the step has returned the later detected of two crises that qualify,
\* while a stabilizing crisis of the type is not among them
C28_Witness ==
    \E b \in Flagged :
        /\ batch[b].pc = "link"
        /\ \E other \in MatchingCrises(events[CurrentEvent(b)], batch[b].analysis) :
              crises[other].detectedAt < crises[batch[b].existingCrisis.id].detectedAt
        /\ events[CurrentEvent(b)].crisisId = 0

----------------------------------------------------------------------------
(* Creating a Crisis from an Event *)

\* the run of b takes the given step of createCrisisFromAnalysis
CreateStep(b, place) == batch[b].pc = place /\ batch'[b] # batch[b]

\* C29: when no open Crisis matches a relevant Event, the batch creates
\* exactly one Crisis, with status EMERGING and the type, severity and
\* confidence of the classifier's answer (type and severity as the
\* enumerations hold them), links the Event to it, marks the Event analyzed
\* and adds one to crisesCreated.
C29_NoMatchCreatesOneCrisis ==
    [][\A b \in Flagged :
          LET e == CurrentEvent(b)
              analysis == batch[b].analysis
          IN  /\ CreateStep(b, "create") =>
                    /\ Len(crises') = Len(crises) + 1
                    /\ SubSeq(crises', 1, Len(crises)) = crises
                    /\ crises'[Len(crises')].status = "EMERGING"
                    /\ crises'[Len(crises')].type = mapCrisisType(analysis.crisisType)
                    /\ crises'[Len(crises')].severity = mapSeverity(analysis.severity)
                    /\ crises'[Len(crises')].confidence = analysis.confidence
                    /\ events'[e].crisisId = Len(crises')
                    /\ batch'[b].pc = "created"
              /\ CreateStep(b, "created") =>
                    /\ crises' = crises
                    /\ events'[e] = [events[e] EXCEPT !.analyzed = TRUE]
                    /\ IF batch[b].idx < Len(batch[b].events)
                       THEN batch'[b].stats =
                                [batch[b].stats EXCEPT !.crisesCreated = @ + 1]
                       ELSE batch'[b] = IdleBatch]_vars

\* a run at its second Event after it created a Crisis of a listed type from
\* the first one
C29_Witness ==
    \E b \in Flagged :
        /\ batch[b].pc = "event"
        /\ batch[b].idx = 2
        /\ batch[b].stats.crisesCreated = 1
        /\ Len(crises) = Len(SeedCrises) + 2
        /\ crises[Len(crises)].type = "CONFLICT"
        /\ crises[Len(crises)].origin = batch[b].events[1]
        /\ events[batch[b].events[1]].crisisId = Len(crises)
        /\ events[batch[b].events[1]].analyzed

----------------------------------------------------------------------------
(* The ledger row of a sweep in progress *)

\* the sweep of p leaves the row it created in this step: it goes on to the
\* next subscriber, or it ends
LeavesRow(p) ==
    /\ sweep[p].notification # 0
    /\ sweep'[p].notification # sweep[p].notification

----------------------------------------------------------------------------
(* The minimum severity of an endpoint *)

\* the call has found the signal below the minimum severity of its endpoint
BelowMinimum(t) == tasks[t].reason = "Severity below threshold"

\* C31: a WebhookEvent whose signal fails the minimum-severity policy of its
\* endpoint ends SKIPPED with the reason recorded, as one that fails the
\* keyword or region policy does: no Event is created for it, the decision
\* being taken before the classifier is invoked.
C31_BelowMinimumIsSkipped ==
    \A t \in DOMAIN tasks : (Ended(t) /\ BelowMinimum(t)) =>
        /\ webhookEvents[t].status = "SKIPPED"
        /\ webhookEvents[t].error # ""
        /\ webhookEvents[t].eventId = 0
        /\ tasks[t].event = 0

----------------------------------------------------------------------------
(* The digests *)

\* the crises a subscriber is due in the sweep of the cadence that read the
\* clock at digest[cadence].since: created in the trailing 24 hours or 7
\* days, and matching the subscription
DueCrises(s, cadence) ==
    {c \in DOMAIN crises :
        /\ crises[c].createdAt >=
               digest[cadence].since - (IF cadence = "DAILY" THEN 24 * 60 ELSE 7 * 24 * 60)
        /\ SubscriberMatches(AlertSubscriptions[s], crises[c])}

\* the subscriber is verified, active and of the cadence
Subscribed(s, cadence) ==
    /\ AlertSubscriptions[s].isActive
    /\ AlertSubscriptions[s].emailVerified
    /\ AlertSubscriptions[s].frequency = cadence

\* the mails of the latest sweep of the cadence to the subscriber
MailsTo(s, cadence) ==
    {i \in DOMAIN digestLog[cadence] : digestLog[cadence][i].subscription = s}

\* C32: a daily (weekly) digest sweep hands exactly one mail to each
\* verified, active DAILY (WEEKLY) subscriber with a matching crisis created
\* in the trailing 24 hours (7 days), listing all its matching crises; no
\* mail to any other subscriber, whatever the sends before it returned; and
\* it writes no SentNotification row.
C32_OneDigestPerDueSubscriber ==
    /\ sentNotification = <<>>
    /\ \A cadence \in Cadences : \A s \in SubscriptionIds :
          /\ Cardinality(MailsTo(s, cadence)) <= 1
          /\ \A i \in MailsTo(s, cadence) :
                /\ Subscribed(s, cadence)
                /\ digestLog[cadence][i].crises = DueCrises(s, cadence)
                /\ DueCrises(s, cadence) # {}
          /\ (digest[cadence].pc = "done" /\ Subscribed(s, cadence)
                  /\ DueCrises(s, cadence) # {}) =>
                MailsTo(s, cadence) # {}

\* the second daily sweep is over: its first send failed, the next
\* subscriber got their mail all the same, and a crisis of the first sweep is
\* listed again
C32_Witness ==
    /\ digest["DAILY"].pc = "done"
    /\ digest["DAILY"].sweeps = 2
    /\ Len(digestLog["DAILY"]) = 2
    /\ ~ digestLog["DAILY"][1].delivered
    /\ Listed(digestLog["DAILY"]) \cap digest["DAILY"].listedBefore # {}
    /\ Len(digestLog["WEEKLY"]) >= 1

----------------------------------------------------------------------------
(* One Event per WebhookEvent *)

\* the signal of the call was normalized and passes the keyword and region
\* filters of its endpoint
PassesFilters(t) ==
    /\ tasks[t].eventData.parsed
    /\ FilterReason(tasks[t].webhook, tasks[t].eventData) = ""

\* C33: processing a WebhookEvent whose signal passes the filters of the
\* endpoint creates exactly one Event, which carries the normalized title,
\* invokes the classifier exactly once, and ends the WebhookEvent SUCCESS
\* with that Event as its eventId; no two calls share an Event.
C33_PassingSignalMakesOneEvent ==
    /\ \A t \in DOMAIN tasks : (Ended(t) /\ PassesFilters(t)) =>
          /\ tasks[t].event \in DOMAIN events
          /\ events[tasks[t].event].title = tasks[t].eventData.title
          /\ tasks[t].analyzeCalls = 1
          /\ webhookEvents[t].status = "SUCCESS"
          /\ webhookEvents[t].eventId = tasks[t].event
    /\ \A t, u \in DOMAIN tasks :
          (t # u /\ tasks[t].event # 0) => tasks[t].event # tasks[u].event
    /\ Len(events) = Len(SeedEvents) + Cardinality({t \in DOMAIN tasks : tasks[t].event # 0})

----------------------------------------------------------------------------
(* The flags after a run *)

\* a run of the job leaves its try block in this step
RunEndsStep(job) == Len(runs'[job]) < Len(runs[job])

\* C34: when a run of the ingestion, the analysis or the summary generation
\* that a tick or a trigger started ends, by returning or by throwing, the
\* flag of its job is false; a flag is never true while no run of its job is
\* in progress, so the tick or the trigger that comes after the end of the
\* run is accepted.
C34_FlagClearedWhenRunEnds ==
    /\ [][\A job \in Jobs : RunEndsStep(job) => ~ Flag(job)']_vars
    /\ [](\A job \in Jobs : Flag(job) => runs[job] # <<>>)
    /\ [](\A job \in Jobs : runs[job] = <<>> => ENABLED ScheduledRun(job))
    /\ [](\A job \in Triggered : runs[job] = <<>> => ENABLED TriggerRun(job))

\* a trigger of the ingestion was accepted after the run of a tick had held
\* the flag and ended, and the run of a tick of the summary job, which
\* turned another tick away, has ended as well
C34_Witness ==
    /\ [job |-> "ingestion", by |-> "trigger", outcome |-> "error", holder |-> "cron"]
           \in refusals
    /\ runs["ingestion"] = <<[by |-> "trigger", pc |-> "runDataIngestion"]>>
    /\ isIngestionRunning
    /\ \E r \in refusals : r.job = "summary"
    /\ runs["summary"] = <<>>
    /\ ~ isSummaryGenerationRunning

----------------------------------------------------------------------------
(* The source references of the pulled Events *)

----------------------------------------------------------------------------
(* The Event a Crisis was created from *)

\* the crises that createCrisisFromAnalysis created
EngineCrises == {c \in DOMAIN crises : crises[c].origin # 0}

\* C36: under every interleaving of the batches an Event is the origin of at
\* most one created Crisis, the crisisId of an Event does not change once it
\* is set, and so every created Crisis keeps the Event it was created from.
C36_OneCrisisPerOriginAndLinkKept ==
    /\ [](\A c, d \in EngineCrises : c # d => crises[c].origin # crises[d].origin)
    /\ [][\A e \in DOMAIN events :
              events[e].crisisId # 0 => events'[e].crisisId = events[e].crisisId]_vars
    /\ [](\A c \in EngineCrises : events[crises[c].origin].crisisId = c)

----------------------------------------------------------------------------
(* The reference from a WebhookEvent to its Event *)

\* a WebhookEvent has its eventId set exactly when it is SUCCESS
ReferenceIffSuccess ==
    \A w \in DOMAIN webhookEvents :
        webhookEvents[w].eventId # 0 <=> webhookEvents[w].status = "SUCCESS"

\* the SKIPPED and the FAILED WebhookEvents reference no Event
EndedWithoutEvent ==
    \A w \in DOMAIN webhookEvents :
        webhookEvents[w].status \in {"SKIPPED", "FAILED"} => webhookEvents[w].eventId = 0

\* C37 as stated: in every reachable state a WebhookEvent has its eventId
\* set if and only if it is SUCCESS, the SKIPPED and the FAILED ones
\* reference no Event, and every Event that the processing of a WebhookEvent
\* created is referenced by that WebhookEvent.
C37_EveryCreatedEventIsReferenced ==
    /\ ReferenceIffSuccess
    /\ EndedWithoutEvent
    /\ \A t \in DOMAIN tasks :
           tasks[t].event # 0 => webhookEvents[t].eventId = tasks[t].event

\* C37: in every reachable state a WebhookEvent has its eventId set if and
\* only if it is SUCCESS, the SKIPPED and the FAILED ones reference no Event,
\* and an Event that the processing of a WebhookEvent created is referenced
\* by that WebhookEvent from the SUCCESS update on; before that update the
\* WebhookEvent is PROCESSING and references nothing.
C37_ReferencedFromSuccessOn ==
    /\ ReferenceIffSuccess
    /\ EndedWithoutEvent
    /\ \A t \in DOMAIN tasks :
           tasks[t].event # 0 =>
               \/ /\ webhookEvents[t].status = "PROCESSING"
                  /\ webhookEvents[t].eventId = 0
                  /\ ~ Ended(t)
               \/ /\ webhookEvents[t].status = "SUCCESS"
                  /\ webhookEvents[t].eventId = tasks[t].event

\* one call has ended SUCCESS with its Event referenced, the other has
\* created its Event and waits for the classifier, still PROCESSING
C37_Witness ==
    /\ \E t \in DOMAIN tasks :
           /\ Ended(t)
           /\ webhookEvents[t].status = "SUCCESS"
           /\ webhookEvents[t].eventId = tasks[t].event
           /\ tasks[t].event \in DOMAIN events
    /\ \E t \in DOMAIN tasks :
           /\ tasks[t].pc = "analyze"
           /\ tasks[t].event \in DOMAIN events
           /\ webhookEvents[t].status = "PROCESSING"

----------------------------------------------------------------------------
(* The region of a created Crisis *)

\* the subscription has regions in its list
HasRegions(s) == AlertSubscriptions[s].regions # {}

\* the subscribers that a sweep or a digest has selected for the crisis: the
\* pairs of the sweeps in progress, the ledger, the alerts and the digests
SelectedFor(c) ==
    UNION {{sweep[p].work[i][1] : i \in {j \in DOMAIN sweep[p].work : sweep[p].work[j][2] = c}}
               : p \in Sweepers} \cup
    {sentNotification[n].subscriptionId :
         n \in {m \in DOMAIN sentNotification : sentNotification[m].crisisId = c}} \cup
    {mailLog[i][1] : i \in {j \in DOMAIN mailLog : mailLog[j][2] = c}} \cup
    UNION {{digestLog[cadence][i].subscription :
                i \in {j \in DOMAIN digestLog[cadence] : c \in digestLog[cadence][j].crises}}
               : cadence \in Cadences} \cup
    UNION {{pair[1] : pair \in {q \in digest[cadence].listedBefore : q[2] = c}}
               : cadence \in Cadences}

\* C38: a Crisis that the engine created has no region, and the sweeps and
\* the digests select for it only subscribers whose region list is empty: a
\* subscriber with regions in its list is never notified of it.
C38_CreatedCrisisReachesNoRegionList ==
    \A c \in EngineCrises :
        /\ crises[c].region = NoText
        /\ \A s \in SelectedFor(c) : ~ HasRegions(s)

\* the batch has created a Crisis from the Event reported from the place in
\* the list of subscriber 9; an immediate sweep has alerted subscriber 1 of
\* it, and the weekly digest has listed it for subscriber 8 and has passed
\* subscriber 9
C38_Witness ==
    \E c \in EngineCrises :
        /\ crises[c].location = <<"L", "a">>
        /\ \E i \in DOMAIN mailLog : mailLog[i] = <<1, c>>
        /\ \E i \in DOMAIN digestLog["WEEKLY"] :
               /\ digestLog["WEEKLY"][i].subscription = 8
               /\ c \in digestLog["WEEKLY"][i].crises
        /\ digest["WEEKLY"].pc = "done"
        /\ HasRegions(9)
        /\ 9 \notin SelectedFor(c)

====
